---------------------------- MODULE Spec2Model ----------------------------
(***************************************************************************)
(* Model of the voice HR assistant of src/app.py: the counseling-session   *)
(* scheduler (check_availability, fetch_session, save_session,             *)
(* reschedule_session, send_session_message), the HR command surface and   *)
(* the dialogue reducer HR_Assistant.generate_ai_response.                 *)
(*                                                                         *)
(* Text is modelled by what the code looks at.  A transcript is the set of *)
(* trigger phrases it contains as substrings (field has), the response     *)
(* cache key it is equal to (field key) and, for "update course", the      *)
(* groups of the command pattern.  A reply of the generative collaborator  *)
(* is the first phrase "<verb> <preposition> YYYY-MM-DD [at] HH:MM [AM|PM]"*)
(* it contains, or none, which is all the two session patterns inspect.    *)
(***************************************************************************)
EXTENDS Integers, Sequences, FiniteSets, TLC

\* ------------------------------------------------------------------ bounds
\* number of transcripts handled by generate_ai_response in one behaviour
MaxTurns == 3
\* number of process starts (main) in one behaviour
MaxStarts == 2
\* latest year the generative collaborator puts in a reply
MaxYear == 2025
\* number of Book/Reschedule operations each concurrent process runs
MaxIdle == 3
MaxOps == 2

\* --------------------------------------------------------- program constants
\* the year floor of save_session / reschedule_session
YearFloor == 2025
\* the price floor of update_course_details
PriceFloor == 12000

None == "None"

\* ------------------------------------------------------------------- texts
Years == 2024..MaxYear
MonthDays == {"05-15"}
Verbs == {"scheduled", "booked", "set", "rescheduled"}
Preps == {"", "for", "to", "on", "at"}

\* time tokens \d{2}:\d{2}(\s*(AM|PM))? : hour, minute, suffix, and whether
\* white space separates the suffix from the digits
TimeTokens ==
    { [h |-> 9,  m |-> 0, suf |-> "",   sp |-> FALSE],
      [h |-> 11, m |-> 0, suf |-> "AM", sp |-> TRUE],
      [h |-> 2,  m |-> 0, suf |-> "PM", sp |-> TRUE],
      [h |-> 13, m |-> 0, suf |-> "PM", sp |-> TRUE] }

\* the phrases the generative collaborator's reply may carry
Phrases ==
    { [verb |-> "scheduled",   prep |-> "for"],
      [verb |-> "booked",      prep |-> "on"],
      [verb |-> "rescheduled", prep |-> "for"],
      [verb |-> "rescheduled", prep |-> "to"] }

NoTok == [h |-> 0, m |-> 0, suf |-> "", sp |-> FALSE]

\* a reply: kind "raise" (send_message raised), "plain" (no scheduling phrase)
\* or "phrase"; says_rescheduled is "rescheduled" in ai_response.lower()
Replies ==
    { [kind |-> "raise", verb |-> None, prep |-> "", y |-> 0, md |-> None,
       tok |-> NoTok, says_rescheduled |-> FALSE] }
    \cup
    { [kind |-> "plain", verb |-> None, prep |-> "", y |-> 0, md |-> None,
       tok |-> NoTok, says_rescheduled |-> b] : b \in BOOLEAN }
    \cup
    { [kind |-> "phrase", verb |-> p.verb, prep |-> p.prep, y |-> y, md |-> md,
       tok |-> t, says_rescheduled |-> (p.verb = "rescheduled")] :
         p \in Phrases, y \in Years, md \in MonthDays, t \in TimeTokens }

\* the reply that carries one phrase
Reply(verb, prep, y, tok) ==
    [kind |-> "phrase", verb |-> verb, prep |-> prep, y |-> y, md |-> "05-15",
     tok |-> tok, says_rescheduled |-> (verb = "rescheduled")]

Token(h, m, suf) == [h |-> h, m |-> m, suf |-> suf, sp |-> suf # ""]

\* no reply: the turn did not reach the scheduler
NoReply == [kind |-> "none", verb |-> None, prep |-> "", y |-> 0, md |-> None,
            tok |-> NoTok, says_rescheduled |-> FALSE]

NoDate == [y |-> 0, md |-> None]
NoTime == [h |-> 0 - 1, m |-> 0]

\* -------------------------------------------------------------- failures
\* A turn's input F is the set of calls to a collaborator that fail in it:
\* a store call (connect_to_db returns None or the statement raises Error)
\* or the SMS gateway.  No call fails, one fails, or all of them do.  A
\* specification draws the failures from the calls its inputs in.fail name.
FailSets(in, calls) ==
    LET may == calls \cap in.fail
    IN  { {} } \cup { {x} : x \in may } \cup { may }

\* The scheduler makes its calls one after another and returns at the first
\* that fails, so one failing call stands for every set that it begins.
FirstFailures(in, calls) == { {} } \cup { {x} : x \in calls \cap in.fail }

\* ---------------------------------------------------------------- variables
VARIABLES
    employees,            \* table employees: sequence of rows, id = index
    sessions,             \* table counseling_sessions: set of rows
    next_id,              \* AUTO_INCREMENT of counseling_sessions
    clock,                \* CURRENT_TIMESTAMP of the store
    courses,              \* table courses: name -> [fees, description, content]
    interactions,         \* table employee_interactions: sequence of rows
    hr_commands,          \* table hr_commands: sequence of rows
    employee_id, employee_name, employee_phone, sms_consent, unique_code,
    last_intent, counseling_context, selected_course, counseling_mode,
    is_hr_authenticated, hr_user,
    audio_failure_count,
    running,              \* a process instance is in start_transcription
    starts, turn,         \* counters bounding the behaviours
    out,                  \* what the last step did (observation of the turn)
                          \* and the reply or the command it was given
    login_seen,           \* history: "hr login" with the secret heard and no
                          \* logout handled since
    procs                 \* the concurrent processes of SpecConc

store == <<employees, sessions, next_id, clock, courses, interactions, hr_commands>>
context == <<last_intent, counseling_context, selected_course, counseling_mode,
             is_hr_authenticated, hr_user>>
identity == <<employee_id, employee_name, employee_phone, sms_consent, unique_code>>
vars == <<store, context, identity, audio_failure_count, running, starts, turn,
          out, login_seen, procs>>


\* ----------------------------------------------------- date/time extraction
\* a pattern for Book that takes the prepositions of Reschedule
BookPatternMatches_to(r) ==
    /\ r.kind = "phrase"
    /\ r.verb \in {"scheduled", "booked", "set", "rescheduled"}
    /\ r.prep \in {"", "for", "to", "on", "at"}

\* save_session's pattern: (scheduled|booked|set|rescheduled)\s*(for|on|at)?
BookPatternMatches(r) ==
    /\ r.kind = "phrase"
    /\ r.verb \in {"scheduled", "booked", "set", "rescheduled"}
    /\ r.prep \in {"", "for", "on", "at"}

\* reschedule_session's pattern: (re)?scheduled\s*(for|to|on|at)?
ReschedulePatternMatches(r) ==
    /\ r.kind = "phrase"
    /\ r.verb \in {"scheduled", "rescheduled"}
    /\ r.prep \in {"", "for", "to", "on", "at"}

\* a rewrite that replaces the whole date
NormaliseDate_reset(y, md) ==
    IF y < YearFloor THEN [y |-> 2025, md |-> "01-01"] ELSE [y |-> y, md |-> md]

\* a rewrite that is never applied
NormaliseDate_kept(y, md) == [y |-> y, md |-> md]

\* the year rewrite: a year below the floor becomes 2025, month and day kept
NormaliseDate(y, md) ==
    IF y < YearFloor THEN [y |-> 2025, md |-> md] ELSE [y |-> y, md |-> md]

\* the token carries AM or PM
HasSuffix(tok) == tok.suf \in {"AM", "PM"}

\* datetime.strptime(token, "%I:%M %p") succeeds: an hour of 1..12, a minute
\* of 0..59 and white space before the suffix
StrptimeOk(tok) ==
    /\ tok.h \in 1..12
    /\ tok.m \in 0..59
    /\ tok.sp

\* a conversion that adds 12 hours to every PM hour
To24h_add12(tok) ==
    [h |-> IF tok.suf = "PM" THEN tok.h + 12 ELSE tok.h, m |-> tok.m]

\* strftime("%H:%M") of the parsed 12-hour time
To24h(tok) ==
    [h |-> IF tok.suf = "PM" THEN (IF tok.h = 12 THEN 12 ELSE tok.h + 12)
                              ELSE (IF tok.h = 12 THEN 0 ELSE tok.h),
     m |-> tok.m]

\* the time stored: converted when the token has a suffix, as written otherwise
NormaliseTime(tok) ==
    IF HasSuffix(tok) THEN To24h(tok) ELSE [h |-> tok.h, m |-> tok.m]

TimeError(tok) == HasSuffix(tok) /\ ~StrptimeOk(tok)

\* what the first part of save_session and of reschedule_session makes of a
\* reply: the date and time, or the failure it returns a re-prompt for
Extraction(matches, r) ==
    IF ~matches
    THEN [date |-> NoDate, time |-> NoTime, failure |-> "no_datetime"]
    ELSE IF TimeError(r.tok)
    THEN [date |-> NoDate, time |-> NoTime, failure |-> "invalid_time"]
    ELSE [date |-> NormaliseDate(r.y, r.md), time |-> NormaliseTime(r.tok),
          failure |-> "none"]

BookExtraction(r) == Extraction(BookPatternMatches(r), r)
RescheduleExtraction(r) == Extraction(ReschedulePatternMatches(r), r)

\* ------------------------------------------------------------ store queries
\* an availability check that answers True when the store fails
check_availability_open(rows, d, t, failed) ==
    IF failed THEN TRUE
    ELSE Cardinality({s \in rows : s.date = d /\ s.time = t}) = 0

\* an availability check that always answers True
check_availability_any(rows, d, t, failed) == TRUE

\* SELECT COUNT(*) ... WHERE session_date = d AND session_time = t; a failed
\* connection or query answers False
check_availability(rows, d, t, failed) ==
    IF failed THEN FALSE
    ELSE Cardinality({s \in rows : s.date = d /\ s.time = t}) = 0

NoSession == [id |-> 0, emp |-> 0, date |-> NoDate, time |-> NoTime,
              mode |-> None, created_at |-> 0]

\* a fetch that orders the employee's rows by created_at ascending
fetch_session_oldest(rows, e, failed) ==
    LET mine == {s \in rows : s.emp = e}
    IN  IF failed \/ mine = {} THEN NoSession
        ELSE CHOOSE s \in mine : \A o \in mine : s.created_at <= o.created_at

\* ... WHERE employee_id = e ORDER BY created_at DESC LIMIT 1; None when the
\* employee has no row or the store fails
fetch_session(rows, e, failed) ==
    LET mine == {s \in rows : s.emp = e}
    IN  IF failed \/ mine = {} THEN NoSession
        ELSE CHOOSE s \in mine : \A o \in mine : o.created_at <= s.created_at

\* ------------------------------------------------------------- notification
\* send_session_message: "sent", "not_sent" (send_sms returned False) or
\* "raise": without a phone number or consent the final return reads the
\* local name location, which only the other branch assigns
send_session_message(phone, consent, failed) ==
    IF phone # None /\ consent
    THEN (IF failed THEN "not_sent" ELSE "sent")
    ELSE "raise"

\* conduct_online_counseling(employee_name, course_name, chat_session) as
\* save_session and reschedule_session call it: chat_session is no name of
\* the module, so evaluating the call raises NameError
online_counseling_call == "raise"


\* ---------------------------------------------------------------- scheduler
\* INSERT INTO counseling_sessions (employee_id, session_date, session_time,
\* mode); id and created_at are the store's defaults
InsertSession(rows, nid, clk, e, d, t, mode) ==
    rows \cup { [id |-> nid, emp |-> e, date |-> d, time |-> t, mode |-> mode,
                 created_at |-> clk + 1] }

\* UPDATE counseling_sessions SET session_date, session_time, mode,
\* created_at = CURRENT_TIMESTAMP WHERE id = sid AND employee_id = e
UpdateSession(rows, clk, sid, e, d, t, mode) ==
    { IF s.id = sid /\ s.emp = e
      THEN [s EXCEPT !.date = d, !.time = t, !.mode = mode, !.created_at = clk + 1]
      ELSE s : s \in rows }

\* what a scheduler operation hands back: the table after it, the message
\* returned ("raise": an exception left the function, "returned_none": the
\* function fell off its end), the slot extracted, the notification step and
\* the store call that failed on the way ("none" when none did)
Result(rows, nid, clk, msg, d, t, notify, op, fault) ==
    [rows |-> rows, next_id |-> nid, clock |-> clk, msg |-> msg,
     date |-> d, time |-> t, notify |-> notify, op |-> op, fault |-> fault]

\* the branch "Invalid year ... detected, correcting to 2025" was taken
YearFixed(r) == r.y < YearFloor

Fault(call, F) == IF call \in F THEN call ELSE "none"

\* the steps after the commit: online counseling, then the notification
AfterCommit(mode, phone, consent, F) ==
    IF mode = "online"
    THEN [msg |-> online_counseling_call, notify |-> "none"]
    ELSE LET n == send_session_message(phone, consent, "send_sms" \in F)
         IN  [msg |-> IF n = "raise" THEN "raise"
                      ELSE IF n = "sent" THEN "confirmation"
                      ELSE "confirmation_no_sms",
              notify |-> n]

save_session(rows, nid, clk, e, phone, consent, r, mode, F) ==
    LET d == NormaliseDate(r.y, r.md)
        t == NormaliseTime(r.tok)
    IN  IF ~BookPatternMatches(r)
        THEN Result(rows, nid, clk, "no_datetime", NoDate, NoTime, "none", "book",
                    "none")
        ELSE IF TimeError(r.tok)
        THEN Result(rows, nid, clk, "invalid_time", d, NoTime, "none", "book", "none")
        ELSE IF ~check_availability(rows, d, t, "check_book" \in F)
        THEN Result(rows, nid, clk, "slot_taken", d, t, "none", "book",
                    Fault("check_book", F))
        ELSE IF "connect_book" \in F
        THEN Result(rows, nid, clk, "returned_none", d, t, "none", "book",
                    "connect_book")
        ELSE IF "execute_book" \in F
        THEN Result(rows, nid, clk, "db_error", d, t, "none", "book", "execute_book")
        ELSE LET a == AfterCommit(mode, phone, consent, F)
             IN  Result(InsertSession(rows, nid, clk, e, d, t, mode), nid + 1,
                        clk + 1, a.msg, d, t, a.notify, "book", "none")

reschedule_session(rows, nid, clk, e, phone, consent, r, mode, F) ==
    LET d == NormaliseDate(r.y, r.md)
        t == NormaliseTime(r.tok)
        existing == fetch_session(rows, e, "fetch" \in F)
    IN  IF ~ReschedulePatternMatches(r)
        THEN Result(rows, nid, clk, "no_datetime_reschedule", NoDate, NoTime,
                    "none", "reschedule", "none")
        ELSE IF TimeError(r.tok)
        THEN Result(rows, nid, clk, "invalid_time", d, NoTime, "none", "reschedule",
                    "none")
        ELSE IF ~check_availability(rows, d, t, "check" \in F)
        THEN Result(rows, nid, clk, "slot_taken", d, t, "none", "reschedule",
                    Fault("check", F))
        ELSE IF existing.id = 0
        THEN LET b == save_session(rows, nid, clk, e, phone, consent, r, mode, F)
             IN  [b EXCEPT !.date = d, !.time = t,
                           !.fault = IF "fetch" \in F THEN "fetch" ELSE @]
        ELSE IF "connect" \in F
        THEN Result(rows, nid, clk, "returned_none", d, t, "none", "reschedule",
                    "connect")
        ELSE IF "execute" \in F
        THEN Result(rows, nid, clk, "db_error", d, t, "none", "reschedule", "execute")
        ELSE LET a == AfterCommit(mode, phone, consent, F)
             IN  Result(UpdateSession(rows, clk, existing.id, e, d, t, mode), nid,
                        clk + 1, a.msg, d, t, a.notify, "reschedule", "none")

BookCalls == {"check_book", "connect_book", "execute_book", "send_sms"}
RescheduleCalls == {"check", "fetch", "connect", "execute"} \cup BookCalls


\* ------------------------------------------------------------------ courses
CourseNames == {"Python Programming", "Java Development", "Data Science",
                "Web Development"}

\* the rows create_tables seeds
SeedCourses ==
    [c \in CourseNames |->
        [fees |-> CASE c = "Python Programming" -> 15000
                    [] c = "Java Development" -> 18000
                    [] c = "Data Science" -> 22000
                    [] OTHER -> 13000,
         description |-> "seed", content |-> "seed"]]

\* course_name LIKE %text% : the course names that contain the text
Like(text) ==
    CASE text \in CourseNames -> {text}
      [] text = "python" -> {"Python Programming"}
      [] text = "java" -> {"Java Development"}
      [] text = "data" -> {"Data Science"}
      [] text = "web" -> {"Web Development"}
      [] text = "development" -> {"Java Development", "Web Development"}
      [] OTHER -> {}

\* fetch_course_details: the name of the first row LIKE %text%, or None
fetch_course_details(text, failed) ==
    IF failed \/ Like(text) = {} THEN None
    ELSE CHOOSE c \in Like(text) : TRUE

\* a resolver that never matches a keyword
detect_course_unmatched(has, prev_course) == prev_course

\* a resolver that forgets the previous course
detect_course_forgets(has, prev_course) ==
    IF "python" \in has THEN "Python Programming"
    ELSE IF "java" \in has THEN "Java Development"
    ELSE IF "data science" \in has THEN "Data Science"
    ELSE IF "web development" \in has THEN "Web Development"
    ELSE None

\* detect_course: the first catalog keyword the transcript contains, mapped
\* to its course name; the previous course when none is contained
detect_course(has, prev_course) ==
    IF "python" \in has THEN "Python Programming"
    ELSE IF "java" \in has THEN "Java Development"
    ELSE IF "data science" \in has THEN "Data Science"
    ELSE IF "web development" \in has THEN "Web Development"
    ELSE prev_course

\* A lowercased transcript as the sequence of its pieces: words, parts of
\* words and the blanks between them.  `keyword in transcript_lower` is
\* containment of the keyword's pieces as a contiguous run.
Contains(text, pieces) ==
    \E i \in 1..(Len(text) - Len(pieces) + 1) :
        SubSeq(text, i, i + Len(pieces) - 1) = pieces

\* course_keywords
course_keywords ==
    { [kw |-> "python", pieces |-> <<"python">>],
      [kw |-> "java", pieces |-> <<"java">>],
      [kw |-> "data science", pieces |-> <<"data", " ", "science">>],
      [kw |-> "web development", pieces |-> <<"web", " ", "development">>] }

\* the catalog keywords a transcript contains
KeywordsIn(text) == { k.kw : k \in { c \in course_keywords : Contains(text, c.pieces) } }

\* the transcripts given to the resolver: no keyword, one keyword, a keyword
\* inside a longer word, the words of a keyword apart, and two keywords
ResolverTexts ==
    { <<"hello">>,
      <<"yes">>,
      <<"book", " ", "it">>,
      <<"data", " ", "entry">>,
      <<"science", " ", "data">>,
      <<"web", " ", "design">>,
      <<"python">>,
      <<"i", " ", "like", " ", "java">>,
      <<"java", "script">>,
      <<"data", " ", "science">>,
      <<"web", " ", "development", " ", "please">>,
      <<"java", " ", "or", " ", "python">>,
      <<"data", " ", "science", " ", "with", " ", "python">> }

\* ---------------------------------------------------------------- employees
\* what a person answers to the name prompt and to the phone prompt (None:
\* nothing usable in three attempts)
Person(name, phone) == [name |-> name, phone |-> phone]
NoCode == 0
\* a well-formed code no employee row carries at the start
SpokenCode == 0 - 1

\* SELECT ... WHERE unique_code = c / WHERE name = n : the first row's id, 0
\* when there is none
ByCode(emps, c) ==
    IF \E i \in 1..Len(emps) : emps[i].code = c
    THEN CHOOSE i \in 1..Len(emps) :
            emps[i].code = c /\ \A j \in 1..(i - 1) : emps[j].code # c
    ELSE 0

ByName(emps, n) ==
    IF \E i \in 1..Len(emps) : emps[i].name = n
    THEN CHOOSE i \in 1..Len(emps) :
            emps[i].name = n /\ \A j \in 1..(i - 1) : emps[j].name # n
    ELSE 0

\* the row found, with the phone number updated when a new one is given
Found(emps, i, phone) ==
    [emps |-> IF phone # None /\ emps[i].phone # phone
              THEN [emps EXCEPT ![i].phone = phone] ELSE emps,
     id |-> i, name |-> emps[i].name,
     phone |-> IF emps[i].phone # None THEN emps[i].phone ELSE phone,
     code |-> emps[i].code]

\* get_or_create_employee: by code, then by name, else a new row whose code
\* is the one given or a generated one (a fresh value: the new row's id)
get_or_create_employee(emps, name, phone, code, failed) ==
    IF failed
    THEN [emps |-> emps, id |-> 0, name |-> name, phone |-> None, code |-> NoCode]
    ELSE IF code # NoCode /\ ByCode(emps, code) # 0
    THEN Found(emps, ByCode(emps, code), phone)
    ELSE IF ByName(emps, name) # 0
    THEN Found(emps, ByName(emps, name), phone)
    ELSE LET c == IF code # NoCode THEN code ELSE Len(emps) + 1
         IN  [emps |-> Append(emps, [name |-> name, phone |-> phone, code |-> c]),
              id |-> Len(emps) + 1, name |-> name, phone |-> phone, code |-> c]


\* what the code hears during identification: for the code prompt "new user",
\* nothing usable in three attempts, or a well-formed code; a name or None;
\* a 10-digit phone number or None
CodeInputs(in, emps) ==
    { s \in { [kind |-> "new user", code |-> NoCode],
              [kind |-> "unheard", code |-> NoCode],
              [kind |-> "code", code |-> SpokenCode] }
              \cup { [kind |-> "code", code |-> emps[i].code] : i \in 1..Len(emps) } :
        s.kind \in in.said }

\* get_employee_details: the employees table and the identity fields after it
get_employee_details(emps, cur_name, cur_phone, cur_code, said, name_in, phone_in, failed) ==
    LET byCode == get_or_create_employee(emps, "Temporary", None, said.code, failed)
        code1 == IF said.kind = "unheard" THEN cur_code ELSE NoCode
        name1 == IF name_in # None THEN name_in ELSE cur_name
        r3 == get_or_create_employee(emps, name1, cur_phone, code1, failed)
        r4 == get_or_create_employee(r3.emps, r3.name, phone_in, r3.code, failed)
    IN  IF said.kind = "code" /\ byCode.id # 0
        THEN byCode
        ELSE IF r3.phone = None /\ phone_in # None
        THEN [r4 EXCEPT !.name = r3.name]
        ELSE r3

\* ------------------------------------------------------------------- state
\* the groups of "update course (\w+) (price|description|content) to (.+)":
\* matched is whether the pattern matches, numeric whether float(value) parses
NoCmd == [matched |-> FALSE, course |-> None, field |-> None, numeric |-> FALSE,
          value |-> 0]
PriceCmd(course, v) ==
    [matched |-> TRUE, course |-> course, field |-> "price", numeric |-> TRUE,
     value |-> v]

NoOut == [branch |-> "none", msg |-> "none", ret |-> "none", op |-> "none",
          date |-> NoDate, time |-> NoTime, notify |-> "none", fault |-> "none",
          year_fixed |-> FALSE, reply |-> NoReply, cmd |-> NoCmd, key |-> None,
          text |-> <<>>, waited |-> 0]

Procs == {1, 2}
\* a process of SpecConc: where it is in its operation (pc), the operation and
\* the slot and mode it works on, the row fetch_session found (sid), what it
\* told its user (msg), its employee and the number of operations it finished
IdleProc == [pc |-> "off", op |-> "none", date |-> NoDate, time |-> NoTime,
             mode |-> None, sid |-> 0, msg |-> "none", emp |-> 0, done |-> 0]

\* HR_Assistant.__init__
InitContext ==
    /\ employee_id = 0
    /\ employee_name = "Unknown"
    /\ employee_phone = None
    /\ sms_consent = TRUE
    /\ unique_code = NoCode
    /\ last_intent = None
    /\ counseling_context = None
    /\ selected_course = None
    /\ counseling_mode = None
    /\ is_hr_authenticated = FALSE
    /\ hr_user = "HR_Admin"
    /\ audio_failure_count = 0

\* create_tables on an empty store, then HR_Assistant()
Init ==
    /\ employees = <<>>
    /\ sessions = {}
    /\ next_id = 1
    /\ clock = 0
    /\ courses = SeedCourses
    /\ interactions = <<>>
    /\ hr_commands = <<>>
    /\ InitContext
    /\ running = FALSE
    /\ starts = 1
    /\ turn = 0
    /\ out = NoOut
    /\ login_seen = FALSE
    /\ procs = [p \in Procs |-> IdleProc]

\* the identity fields and the employees table after get_employee_details
Identify(said, name_in, phone_in, failed) ==
    LET r == get_employee_details(employees, employee_name, employee_phone,
                                  unique_code, said, name_in, phone_in, failed)
    IN  /\ employees' = r.emps
        /\ employee_id' = r.id
        /\ employee_name' = r.name
        /\ employee_phone' = r.phone
        /\ unique_code' = r.code
        /\ sms_consent' = sms_consent

\* main: get_employee_details, then start_transcription
Start(in) ==
    /\ ~running
    /\ \E said \in CodeInputs(in, employees), who \in in.people,
          failed \in in.ident_fails :
            Identify(said, who.name, who.phone, failed)
    /\ running' = TRUE
    /\ out' = [NoOut EXCEPT !.branch = "start"]
    /\ UNCHANGED <<sessions, next_id, clock, courses, interactions, hr_commands,
                   context, audio_failure_count, starts, turn, login_seen, procs>>

\* the process ends and main runs again on the same store
Restart(in) ==
    /\ running
    /\ starts < MaxStarts
    /\ turn < in.turns
    /\ starts' = starts + 1
    /\ running' = FALSE
    /\ employee_id' = 0
    /\ employee_name' = "Unknown"
    /\ employee_phone' = None
    /\ sms_consent' = TRUE
    /\ unique_code' = NoCode
    /\ last_intent' = None
    /\ counseling_context' = None
    /\ selected_course' = None
    /\ counseling_mode' = None
    /\ is_hr_authenticated' = FALSE
    /\ hr_user' = "HR_Admin"
    /\ audio_failure_count' = 0
    /\ login_seen' = FALSE
    /\ out' = [NoOut EXCEPT !.branch = "restart"]
    /\ UNCHANGED <<store, turn, procs>>


\* -------------------------------------------------------------- transcripts
\* HR_PASSWORD
HR_PASSWORD == "regex123"

CacheKeys == {"schedule counseling", "reschedule counseling", "course details",
              "available courses", "just schedule"}

JustSchedulePhrases == {"just schedule", "book counseling", "schedule now",
                        "schedule only session"}
HelpPhrases == {"need counseling", "help choosing", "suggest courses"}
ScheduleWords == {"schedule", "book", "counseling"}
CourseKeywords == {"course", "courses", "python", "java", "data science",
                   "web development"}
ReschedulePhrases == {"reschedule", "change my session", "move my session"}
ConfirmPhrases == {"yes", "correct", "confirm", "all details are correct"}

T(txt, has, cmd) ==
    [txt |-> txt, has |-> has, key |-> IF txt \in CacheKeys THEN txt ELSE None,
     cmd |-> cmd]

\* the transcripts (lowercased, stripped) a turn may carry, each with the
\* trigger phrases it contains
Transcripts ==
    { T("schedule counseling", {"schedule", "counseling"}, NoCmd),
      T("reschedule counseling", {"reschedule", "schedule", "counseling"}, NoCmd),
      T("just schedule", {"just schedule", "schedule"}, NoCmd),
      T("book counseling", {"book counseling", "book", "counseling"}, NoCmd),
      T("i want to schedule a session", {"schedule"}, NoCmd),
      T("course details", {"course"}, NoCmd),
      T("i want to learn python", {"python"}, NoCmd),
      T("i want to take admission", {}, NoCmd),
      T("python", {"python"}, NoCmd),
      T("help choosing", {"help choosing"}, NoCmd),
      T("online", {"online"}, NoCmd),
      T("offline", {"offline"}, NoCmd),
      T("yes", {"yes"}, NoCmd),
      T("may 15 2025 at 11am", {}, NoCmd),
      T("reschedule my session", {"reschedule", "schedule"}, NoCmd),
      T("hr login regex123", {"hr login", HR_PASSWORD}, NoCmd),
      T("hr login", {"hr login"}, NoCmd),
      T("logout", {"logout"}, NoCmd),
      T("status report", {"status report"}, NoCmd),
      T("view interactions", {"view interactions"}, NoCmd),
      T("update course", {"update course", "course"}, NoCmd),
      T("update course python price to 16000",
        {"update course", "course", "python"}, PriceCmd("python", 16000)),
      T("update course python price to 15000",
        {"update course", "course", "python"}, PriceCmd("python", 15000)),
      T("update course python price to 12000",
        {"update course", "course", "python"}, PriceCmd("python", PriceFloor)),
      T("update course ruby price to 16000",
        {"update course", "course"}, PriceCmd("ruby", 16000)),
      T("update course development price to 16000",
        {"update course", "course"}, PriceCmd("development", 16000)) }

AnyOf(u, phrases) == u.has \cap phrases # {}

\* ------------------------------------------------------------------ reducer
Bound == employee_id # 0 /\ employee_name # "Unknown"

\* a reducer that does not test is_hr_authenticated
Branch_ungated(u) ==
    IF ~Bound THEN "identify"
    ELSE IF "hr login" \in u.has
    THEN (IF HR_PASSWORD \in u.has THEN "hr_login" ELSE "hr_denied")
    ELSE IF "view interactions" \in u.has THEN "view_interactions"
    ELSE IF "update course" \in u.has THEN "update_course"
    ELSE IF "status report" \in u.has THEN "status_report"
    ELSE IF "logout" \in u.has THEN "logout"
    ELSE "generative"

\* a reducer that hears the HR login before it looks at the identity
Branch_login_first(u) ==
    IF "hr login" \in u.has
    THEN (IF HR_PASSWORD \in u.has THEN "hr_login" ELSE "hr_denied")
    ELSE IF ~Bound THEN "identify"
    ELSE IF is_hr_authenticated /\ "view interactions" \in u.has THEN "view_interactions"
    ELSE IF is_hr_authenticated /\ "update course" \in u.has THEN "update_course"
    ELSE IF is_hr_authenticated /\ "status report" \in u.has THEN "status_report"
    ELSE IF is_hr_authenticated /\ "logout" \in u.has THEN "logout"
    ELSE IF u.key \in CacheKeys /\ selected_course = None THEN "cache"
    ELSE IF counseling_context = "awaiting_mode" THEN "awaiting_mode"
    ELSE IF AnyOf(u, CourseKeywords) THEN "course_query"
    ELSE "generative"

\* a reducer whose cache answers whether or not a course is selected
Branch_cached(u) ==
    IF ~Bound THEN "identify"
    ELSE IF "hr login" \in u.has
    THEN (IF HR_PASSWORD \in u.has THEN "hr_login" ELSE "hr_denied")
    ELSE IF is_hr_authenticated /\ "view interactions" \in u.has THEN "view_interactions"
    ELSE IF is_hr_authenticated /\ "update course" \in u.has THEN "update_course"
    ELSE IF is_hr_authenticated /\ "status report" \in u.has THEN "status_report"
    ELSE IF is_hr_authenticated /\ "logout" \in u.has THEN "logout"
    ELSE IF u.key \in CacheKeys THEN "cache"
    ELSE IF /\ counseling_context = "awaiting_choice"
            /\ \/ AnyOf(u, JustSchedulePhrases)
               \/ detect_course(u.has, selected_course) # None
               \/ AnyOf(u, HelpPhrases)
    THEN "awaiting_choice"
    ELSE IF counseling_context = "awaiting_mode" THEN "awaiting_mode"
    ELSE IF counseling_context = "course_suggestion" /\ AnyOf(u, ScheduleWords)
    THEN "after_suggestion"
    ELSE IF AnyOf(u, CourseKeywords) THEN "course_query"
    ELSE "generative"

\* the branch of generate_ai_response that handles transcript u, in the
\* order the code tests them
Branch(u) ==
    IF ~Bound THEN "identify"
    ELSE IF "hr login" \in u.has
    THEN (IF HR_PASSWORD \in u.has THEN "hr_login" ELSE "hr_denied")
    ELSE IF is_hr_authenticated /\ "view interactions" \in u.has THEN "view_interactions"
    ELSE IF is_hr_authenticated /\ "update course" \in u.has THEN "update_course"
    ELSE IF is_hr_authenticated /\ "status report" \in u.has THEN "status_report"
    ELSE IF is_hr_authenticated /\ "logout" \in u.has THEN "logout"
    ELSE IF u.key \in CacheKeys /\ selected_course = None THEN "cache"
    ELSE IF /\ counseling_context = "awaiting_choice"
            /\ \/ AnyOf(u, JustSchedulePhrases)
               \/ detect_course(u.has, selected_course) # None
               \/ AnyOf(u, HelpPhrases)
    THEN "awaiting_choice"
    ELSE IF counseling_context = "awaiting_mode" THEN "awaiting_mode"
    ELSE IF counseling_context = "course_suggestion" /\ AnyOf(u, ScheduleWords)
    THEN "after_suggestion"
    ELSE IF AnyOf(u, CourseKeywords) THEN "course_query"
    ELSE "generative"

\* save_interaction: one more row unless the store call fails
Logged(log, n, F) ==
    IF "save_interaction" \in F \/ n = 0 THEN log
    ELSE IF n = 1 THEN Append(log, [emp |-> employee_id, turn |-> turn + 1])
    ELSE Append(Append(log, [emp |-> employee_id, turn |-> turn + 1]),
                [emp |-> employee_id, turn |-> turn + 1])

\* save_hr_command
Audited(log, text, by, F) ==
    IF "save_hr_command" \in F THEN log
    ELSE Append(log, [text |-> text, by |-> by])

\* what every handled transcript does besides its branch: start_transcription
\* clears the failure counter before it calls generate_ai_response
TurnOf(in, u, branch) ==
    /\ running
    /\ turn < in.turns
    /\ Branch(u) = branch
    /\ turn' = turn + 1
    /\ audio_failure_count' = 0
    /\ login_seen' = IF "hr login" \in u.has /\ HR_PASSWORD \in u.has THEN TRUE
                     ELSE IF branch = "logout" THEN FALSE
                     ELSE login_seen
    /\ UNCHANGED <<running, starts, procs>>

Said(branch, msg) == [NoOut EXCEPT !.branch = branch, !.msg = msg]

\* the same for transcript u, with the cache key it equals (None: no key)
SaidTo(u, branch, msg) == [Said(branch, msg) EXCEPT !.key = u.key]


\* ------------------------------------------------------- HR command surface
\* update_course_details: the courses table, the audit log and the message
update_course_details(crs, log, cmd, by, F) ==
    LET hit == Like(cmd.course)
        changed == { c \in hit :
                        IF cmd.field = "price" THEN crs[c].fees # cmd.value
                        ELSE IF cmd.field = "description"
                        THEN crs[c].description # cmd.value
                        ELSE crs[c].content # cmd.value }
        updated == [c \in CourseNames |->
                        IF c \notin hit THEN crs[c]
                        ELSE IF cmd.field = "price"
                        THEN [crs[c] EXCEPT !.fees = cmd.value]
                        ELSE IF cmd.field = "description"
                        THEN [crs[c] EXCEPT !.description = cmd.value]
                        ELSE [crs[c] EXCEPT !.content = cmd.value]]
        same(m) == [courses |-> crs, hr_commands |-> log, msg |-> m]
    IN  IF "connect_update" \in F THEN same("db_connection_failed")
        ELSE IF cmd.field \notin {"price", "description", "content"}
        THEN same("invalid_field")
        ELSE IF cmd.field = "price" /\ ~cmd.numeric THEN same("raise")
        ELSE IF cmd.field = "price" /\ cmd.value <= PriceFloor
        THEN same("price_rejected")
        ELSE IF "execute_update" \in F THEN same("update_error")
        ELSE IF changed # {}
        THEN [courses |-> updated,
              hr_commands |-> Audited(log, "updated course", by, F),
              msg |-> "updated"]
        ELSE same("course_not_found")

Turn_Identify(in) ==
    \E u \in in.U, said \in CodeInputs(in, employees), who \in in.people,
       failed \in in.ident_fails :
        /\ TurnOf(in, u, "identify")
        /\ Identify(said, who.name, who.phone, failed)
        /\ out' = SaidTo(u, "identify", "identification")
        /\ UNCHANGED <<sessions, next_id, clock, courses, interactions,
                       hr_commands, context>>

\* the same turn when the identification cannot start: get_employee_details
\* enters the microphone that start_transcription already holds open, and an
\* audio source that refuses a second entry raises there; the handler of
\* generate_ai_response apologises and nothing is identified
Turn_IdentifyRaises(in) ==
    \E u \in in.U :
        /\ TurnOf(in, u, "identify")
        /\ out' = SaidTo(u, "identify", "apology")
        /\ UNCHANGED <<store, context, identity>>

Turn_HRLogin(in) ==
    \E u \in in.U, F \in FailSets(in, {"save_interaction"}) :
        /\ TurnOf(in, u, "hr_login")
        /\ is_hr_authenticated' = TRUE
        /\ hr_user' = employee_name
        /\ interactions' = Logged(interactions, 1, F)
        /\ out' = SaidTo(u, "hr_login", "login_ok")
        /\ UNCHANGED <<employees, sessions, next_id, clock, courses, hr_commands,
                       last_intent, counseling_context, selected_course,
                       counseling_mode, identity>>

\* a denied login that also ends the HR session
Turn_HRDenied_clears(in) ==
    \E u \in in.U, F \in FailSets(in, {"save_interaction"}) :
        /\ TurnOf(in, u, "hr_denied")
        /\ is_hr_authenticated' = FALSE
        /\ interactions' = Logged(interactions, 1, F)
        /\ out' = SaidTo(u, "hr_denied", "password_prompt")
        /\ UNCHANGED <<employees, sessions, next_id, clock, courses, hr_commands,
                       last_intent, counseling_context, selected_course,
                       counseling_mode, hr_user, identity>>

Turn_HRDenied(in) ==
    \E u \in in.U, F \in FailSets(in, {"save_interaction"}) :
        /\ TurnOf(in, u, "hr_denied")
        /\ interactions' = Logged(interactions, 1, F)
        /\ out' = SaidTo(u, "hr_denied", "password_prompt")
        /\ UNCHANGED <<employees, sessions, next_id, clock, courses, hr_commands,
                       context, identity>>

Turn_ViewInteractions(in) ==
    \E u \in in.U,
       F \in FailSets(in, {"fetch_employee_interactions", "save_interaction",
                       "save_hr_command"}) :
        /\ TurnOf(in, u, "view_interactions")
        /\ interactions' = Logged(interactions, 1, F)
        /\ hr_commands' = Audited(hr_commands, "viewed interactions", hr_user, F)
        /\ out' = SaidTo(u, "view_interactions", "interactions")
        /\ UNCHANGED <<employees, sessions, next_id, clock, courses, context,
                       identity>>

Turn_UpdateCourse(in) ==
    \E u \in in.U,
       F \in FailSets(in, {"connect_update", "execute_update", "save_interaction",
                       "save_hr_command"}) :
        LET r == update_course_details(courses, hr_commands, u.cmd, hr_user, F)
        IN  /\ TurnOf(in, u, "update_course")
            /\ IF ~u.cmd.matched
               THEN /\ interactions' = Logged(interactions, 1, F)
                    /\ out' = [SaidTo(u, "update_course", "usage") EXCEPT !.cmd = u.cmd]
                    /\ UNCHANGED <<courses, hr_commands>>
               ELSE /\ courses' = r.courses
                    /\ hr_commands' = r.hr_commands
                    /\ interactions' = Logged(interactions,
                                              IF r.msg = "raise" THEN 0 ELSE 1, F)
                    /\ out' = [SaidTo(u, "update_course",
                                    IF r.msg = "raise" THEN "apology" ELSE r.msg)
                               EXCEPT !.ret = r.msg, !.cmd = u.cmd]
            /\ UNCHANGED <<employees, sessions, next_id, clock, context, identity>>

Turn_StatusReport(in) ==
    \E u \in in.U,
       F \in FailSets(in, {"generate_status_report", "save_interaction",
                       "save_hr_command"}) :
        /\ TurnOf(in, u, "status_report")
        /\ interactions' = Logged(interactions, 1, F)
        /\ hr_commands' = Audited(hr_commands, "status report", hr_user, F)
        /\ out' = SaidTo(u, "status_report", "report")
        /\ UNCHANGED <<employees, sessions, next_id, clock, courses, context,
                       identity>>

\* a logout that also abandons the dialogue
Turn_Logout_resets(in) ==
    \E u \in in.U, F \in FailSets(in, {"save_interaction"}) :
        /\ TurnOf(in, u, "logout")
        /\ is_hr_authenticated' = FALSE
        /\ counseling_context' = None
        /\ interactions' = Logged(interactions, 1, F)
        /\ out' = SaidTo(u, "logout", "logout_ok")
        /\ UNCHANGED <<employees, sessions, next_id, clock, courses, hr_commands,
                       last_intent, selected_course, counseling_mode, hr_user,
                       identity>>

Turn_Logout(in) ==
    \E u \in in.U, F \in FailSets(in, {"save_interaction"}) :
        /\ TurnOf(in, u, "logout")
        /\ is_hr_authenticated' = FALSE
        /\ interactions' = Logged(interactions, 1, F)
        /\ out' = SaidTo(u, "logout", "logout_ok")
        /\ UNCHANGED <<employees, sessions, next_id, clock, courses, hr_commands,
                       last_intent, counseling_context, selected_course,
                       counseling_mode, hr_user, identity>>


\* ----------------------------------------------------------------- dialogue
Turn_Cache(in) ==
    \E u \in in.U, F \in FailSets(in, {"save_interaction"}) :
        /\ TurnOf(in, u, "cache")
        /\ interactions' = Logged(interactions, 1, F)
        /\ last_intent' = IF "reschedule" \in u.has THEN "reschedule"
                          ELSE IF "schedule" \in u.has THEN "schedule"
                          ELSE "course"
        /\ counseling_context' = IF u.key = "schedule counseling"
                                 THEN "awaiting_choice" ELSE counseling_context
        /\ out' = SaidTo(u, "cache", u.key)
        /\ UNCHANGED <<employees, sessions, next_id, clock, courses, hr_commands,
                       selected_course, counseling_mode, is_hr_authenticated,
                       hr_user, identity>>

Turn_AwaitingChoice(in) ==
    \E u \in in.U, F \in FailSets(in, {"save_interaction", "fetch_all_courses"}) :
        LET detected == detect_course(u.has, selected_course)
        IN  /\ TurnOf(in, u, "awaiting_choice")
            /\ interactions' = Logged(interactions, 1, F)
            /\ IF AnyOf(u, JustSchedulePhrases) /\ detected = None
                  /\ selected_course = None
               THEN /\ out' = SaidTo(u, "awaiting_choice", "ask_course")
                    /\ UNCHANGED <<selected_course, counseling_context, last_intent>>
               ELSE IF AnyOf(u, JustSchedulePhrases) \/ detected # None
               THEN /\ selected_course' = IF detected # None THEN detected
                                          ELSE selected_course
                    /\ counseling_context' = "awaiting_mode"
                    /\ out' = SaidTo(u, "awaiting_choice", "ask_mode")
                    /\ UNCHANGED last_intent
               ELSE /\ counseling_context' = "course_suggestion"
                    /\ IF "fetch_all_courses" \in F
                       THEN /\ out' = SaidTo(u, "awaiting_choice", "no_courses")
                            /\ UNCHANGED last_intent
                       ELSE /\ out' = SaidTo(u, "awaiting_choice", "course_list")
                            /\ last_intent' = "course_suggestion"
                    /\ UNCHANGED selected_course
            /\ UNCHANGED <<employees, sessions, next_id, clock, courses, hr_commands,
                           counseling_mode, is_hr_authenticated, hr_user, identity>>

Turn_AwaitingMode(in) ==
    \E u \in in.U, F \in FailSets(in, {"save_interaction"}) :
        /\ TurnOf(in, u, "awaiting_mode")
        /\ interactions' = Logged(interactions, 1, F)
        /\ IF "online" \in u.has \/ "offline" \in u.has
           THEN /\ counseling_mode' = IF "online" \in u.has THEN "online" ELSE "offline"
                /\ counseling_context' = None
                /\ last_intent' = "schedule"
                /\ out' = SaidTo(u, "awaiting_mode", "ask_when")
           ELSE /\ out' = SaidTo(u, "awaiting_mode", "ask_mode_again")
                /\ UNCHANGED <<counseling_mode, counseling_context, last_intent>>
        /\ UNCHANGED <<employees, sessions, next_id, clock, courses, hr_commands,
                       selected_course, is_hr_authenticated, hr_user, identity>>

\* a schedule-like word after the suggestion that leaves the state as it is
Turn_AfterSuggestion_stays(in) ==
    \E u \in in.U, F \in FailSets(in, {"save_interaction"}) :
        /\ TurnOf(in, u, "after_suggestion")
        /\ interactions' = Logged(interactions, 1, F)
        /\ out' = SaidTo(u, "after_suggestion", "ask_choice")
        /\ UNCHANGED <<employees, sessions, next_id, clock, courses, hr_commands,
                       context, identity>>

Turn_AfterSuggestion(in) ==
    \E u \in in.U, F \in FailSets(in, {"save_interaction"}) :
        /\ TurnOf(in, u, "after_suggestion")
        /\ interactions' = Logged(interactions, 1, F)
        /\ counseling_context' = "awaiting_choice"
        /\ out' = SaidTo(u, "after_suggestion", "ask_choice")
        /\ UNCHANGED <<employees, sessions, next_id, clock, courses, hr_commands,
                       last_intent, selected_course, counseling_mode,
                       is_hr_authenticated, hr_user, identity>>

\* a course query that forgets the selected course when the catalog cannot
\* be read
Turn_CourseQuery_drops(in) ==
    \E u \in in.U, F \in FailSets(in, {"save_interaction", "fetch_course_details"}) :
        LET detected == detect_course(u.has, selected_course)
            course_name == IF detected # None THEN detected
                           ELSE IF "course" \in u.has THEN "course"
                           ELSE "courses"
            found == fetch_course_details(course_name, "fetch_course_details" \in F)
        IN  /\ TurnOf(in, u, "course_query")
            /\ interactions' = Logged(interactions, 1, F)
            /\ last_intent' = "course"
            /\ selected_course' = found
            /\ IF found # None
               THEN /\ counseling_context' = "awaiting_mode"
                    /\ out' = SaidTo(u, "course_query", "course_info")
               ELSE /\ out' = SaidTo(u, "course_query", "course_unknown")
                    /\ UNCHANGED counseling_context
            /\ UNCHANGED <<employees, sessions, next_id, clock, courses, hr_commands,
                           counseling_mode, is_hr_authenticated, hr_user, identity>>

Turn_CourseQuery(in) ==
    \E u \in in.U, F \in FailSets(in, {"save_interaction", "fetch_course_details"}) :
        LET detected == detect_course(u.has, selected_course)
            course_name == IF detected # None THEN detected
                           ELSE IF "course" \in u.has THEN "course"
                           ELSE "courses"
            found == fetch_course_details(course_name, "fetch_course_details" \in F)
        IN  /\ TurnOf(in, u, "course_query")
            /\ interactions' = Logged(interactions, 1, F)
            /\ last_intent' = "course"
            /\ IF found # None
               THEN /\ selected_course' = found
                    /\ counseling_context' = "awaiting_mode"
                    /\ out' = SaidTo(u, "course_query", "course_info")
               ELSE /\ out' = SaidTo(u, "course_query", "course_unknown")
                    /\ UNCHANGED <<selected_course, counseling_context>>
            /\ UNCHANGED <<employees, sessions, next_id, clock, courses, hr_commands,
                           counseling_mode, is_hr_authenticated, hr_user, identity>>


\* ------------------------------------------------- the generative fall-back
\* after the collaborator's reply the code looks at the transcript again
IsReschedule(u) == AnyOf(u, ReschedulePhrases)
IsConfirmation(u) == AnyOf(u, ConfirmPhrases)
IsModeSelection(u) == "online" \in u.has \/ "offline" \in u.has

\* which of the four continuations follows the reply r to transcript u
Continuation(u, r) ==
    IF IsReschedule(u) THEN "reschedule_request"
    ELSE IF IsConfirmation(u) /\ (last_intent = "reschedule" \/ r.says_rescheduled)
    THEN "reschedule"
    ELSE IF IsModeSelection(u) /\ last_intent = "reschedule" THEN "reschedule_mode"
    ELSE "book"

\* mode = self.counseling_mode or "offline"
ModeOrOffline == IF counseling_mode # None THEN counseling_mode ELSE "offline"

\* what the user hears for a scheduler result: a result that raised, or that
\* is None and cannot be concatenated, ends in the handler's apology
Heard(ret) == IF ret \in {"raise", "returned_none"} THEN "apology" ELSE ret

\* a failure of the collaborator that leaves start_transcription
Turn_GenerativeFails_escapes(in) ==
    \E u \in in.U :
        /\ running
        /\ turn < in.turns
        /\ Branch(u) = "generative"
        /\ turn' = turn + 1
        /\ audio_failure_count' = 0
        /\ running' = FALSE
        /\ out' = SaidTo(u, "generative", "apology")
        /\ UNCHANGED <<store, context, identity, starts, login_seen, procs>>

\* self.chat.send_message raises: the handler apologises, nothing is stored
Turn_GenerativeFails(in) ==
    \E u \in in.U :
        /\ TurnOf(in, u, "generative")
        /\ out' = SaidTo(u, "generative", "apology")
        /\ UNCHANGED <<store, context, identity>>

Turn_RescheduleRequest(in) ==
    \E u \in in.U, F \in FailSets(in, {"save_interaction"}) :
        /\ TurnOf(in, u, "generative")
        /\ IsReschedule(u)
        /\ interactions' = Logged(interactions, 2, F)
        /\ last_intent' = "reschedule"
        /\ counseling_context' = "awaiting_mode"
        /\ out' = SaidTo(u, "reschedule_request", "ask_mode")
        /\ UNCHANGED <<employees, sessions, next_id, clock, courses, hr_commands,
                       selected_course, counseling_mode, is_hr_authenticated,
                       hr_user, identity>>

Turn_RescheduleMode(in) ==
    \E u \in in.U, F \in FailSets(in, {"save_interaction"}) :
        /\ TurnOf(in, u, "generative")
        /\ ~IsReschedule(u)
        /\ ~IsConfirmation(u)
        /\ IsModeSelection(u) /\ last_intent = "reschedule"
        /\ interactions' = Logged(interactions, 2, F)
        /\ counseling_mode' = IF "online" \in u.has THEN "online" ELSE "offline"
        /\ counseling_context' = None
        /\ out' = SaidTo(u, "reschedule_mode", "ask_when")
        /\ UNCHANGED <<employees, sessions, next_id, clock, courses, hr_commands,
                       last_intent, selected_course, is_hr_authenticated, hr_user,
                       identity>>

\* the turn's effect for a scheduler result res to reply r
Scheduled(u, branch, res, r, F) ==
    /\ sessions' = res.rows
    /\ next_id' = res.next_id
    /\ clock' = res.clock
    /\ interactions' = Logged(interactions,
                              IF Heard(res.msg) = "apology" THEN 1 ELSE 2, F)
    /\ out' = [branch |-> branch, msg |-> Heard(res.msg), ret |-> res.msg,
               op |-> res.op, date |-> res.date, time |-> res.time,
               notify |-> res.notify, fault |-> res.fault,
               year_fixed |-> (res.date # NoDate /\ YearFixed(r)),
               reply |-> r, cmd |-> NoCmd, key |-> u.key, text |-> <<>>,
               waited |-> 0]
    /\ UNCHANGED <<employees, courses, hr_commands, counseling_context,
                   selected_course, counseling_mode, is_hr_authenticated, hr_user,
                   identity>>

\* Reschedule: a confirmation while a reschedule is pending or announced
Turn_Reschedule(in) ==
    \E u \in in.U, r \in in.replies,
       F \in FirstFailures(in, RescheduleCalls \cup {"save_interaction"}) :
        /\ TurnOf(in, u, "generative")
        /\ r.kind # "raise"
        /\ Continuation(u, r) = "reschedule"
        /\ last_intent' = "reschedule"
        /\ Scheduled(u, "reschedule",
                     reschedule_session(sessions, next_id, clock, employee_id,
                                        employee_phone, sms_consent, r,
                                        ModeOrOffline, F), r, F)

\* Book: every other transcript that reaches the collaborator
Turn_Book(in) ==
    \E u \in in.U, r \in in.replies,
       F \in FirstFailures(in, BookCalls \cup {"save_interaction"}) :
        /\ TurnOf(in, u, "generative")
        /\ r.kind # "raise"
        /\ Continuation(u, r) = "book"
        /\ last_intent' = "schedule"
        /\ Scheduled(u, "book",
                     save_session(sessions, next_id, clock, employee_id,
                                  employee_phone, sms_consent, r, ModeOrOffline, F),
                     r, F)


\* ------------------------------------------------------- the listening loop
\* start_transcription, when listen returns no transcript.  recognizer.listen
\* gives up after 8 seconds without speech (WaitTimeoutError); the loop's
\* outer handler logs it and listens again.  out.waited counts the timeouts
\* in a row, the time the conversation has been idle.
ListenTimeout ==
    /\ running
    /\ out.waited < MaxIdle
    /\ out' = [NoOut EXCEPT !.branch = "timeout", !.waited = out.waited + 1]
    /\ UNCHANGED <<store, context, identity, audio_failure_count, running,
                   starts, turn, login_seen, procs>>

\* a loop that gives its hint one failure later
Unrecognized_late ==
    /\ running
    /\ audio_failure_count' = IF audio_failure_count + 1 >= 4 THEN 0
                              ELSE audio_failure_count + 1
    /\ out' = [NoOut EXCEPT !.branch = "unrecognized",
                            !.msg = IF audio_failure_count + 1 >= 4
                                    THEN "trouble_hearing" ELSE "none"]
    /\ UNCHANGED <<store, context, identity, running, starts, turn, login_seen,
                   procs>>

\* recognize_google cannot understand the audio (UnknownValueError): the
\* third failure in a row is answered with a hint and the counter restarts
Unrecognized ==
    /\ running
    /\ audio_failure_count' = IF audio_failure_count + 1 >= 3 THEN 0
                              ELSE audio_failure_count + 1
    /\ out' = [NoOut EXCEPT !.branch = "unrecognized",
                            !.msg = IF audio_failure_count + 1 >= 3
                                    THEN "trouble_hearing" ELSE "none"]
    /\ UNCHANGED <<store, context, identity, running, starts, turn, login_seen,
                   procs>>

\* recognize_google cannot reach its service (RequestError)
RequestError ==
    /\ running
    /\ out' = [NoOut EXCEPT !.branch = "request_error"]
    /\ UNCHANGED <<store, context, identity, audio_failure_count, running,
                   starts, turn, login_seen, procs>>


\* ------------------------------------------------------ concurrent processes
\* Several processes run main against one store.  Every store call of
\* save_session and reschedule_session opens its own connection and commits
\* on its own, so the calls of different processes interleave; the table
\* counseling_sessions has no UNIQUE constraint on (session_date, session_time).
ProcName(p) == IF p = 1 THEN "asha" ELSE "ravi"

\* main: the process identifies its employee
ProcStart(p) ==
    LET g == get_or_create_employee(employees, ProcName(p), "p", NoCode, FALSE)
    IN  /\ procs[p].pc = "off"
        /\ employees' = g.emps
        /\ procs' = [procs EXCEPT ![p].pc = "idle", ![p].emp = g.id]
        /\ UNCHANGED <<sessions, next_id, clock, courses, interactions,
                       hr_commands, context, identity, audio_failure_count,
                       running, starts, turn, out, login_seen>>

\* a turn reaches save_session or reschedule_session with reply r: the
\* date and time are extracted
ProcBegin(p, replies) ==
    \E r \in replies, op \in {"book", "reschedule"}, mode \in {"online", "offline"} :
        /\ procs[p].pc = "idle"
        /\ procs[p].done < MaxOps
        /\ IF op = "book" THEN BookPatternMatches(r) ELSE ReschedulePatternMatches(r)
        /\ ~TimeError(r.tok)
        /\ procs' = [procs EXCEPT ![p].pc = "check", ![p].op = op,
                                  ![p].date = NormaliseDate(r.y, r.md),
                                  ![p].time = NormaliseTime(r.tok),
                                  ![p].mode = mode, ![p].sid = 0,
                                  ![p].msg = "none"]
        /\ UNCHANGED <<store, context, identity, audio_failure_count, running,
                       starts, turn, out, login_seen>>

\* check_availability on a connection of its own
ProcCheck(p) ==
    /\ procs[p].pc = "check"
    /\ procs' = IF check_availability(sessions, procs[p].date, procs[p].time, FALSE)
                THEN [procs EXCEPT ![p].pc = IF procs[p].op = "book" THEN "write"
                                             ELSE "fetch"]
                ELSE [procs EXCEPT ![p].pc = "idle", ![p].msg = "slot_taken",
                                   ![p].done = @ + 1]
    /\ UNCHANGED <<store, context, identity, audio_failure_count, running,
                   starts, turn, out, login_seen>>

\* fetch_session on a connection of its own; without a row the operation
\* goes on in save_session, which checks the slot again
ProcFetch(p) ==
    LET existing == fetch_session(sessions, procs[p].emp, FALSE)
    IN  /\ procs[p].pc = "fetch"
        /\ procs' = IF existing.id = 0
                    THEN [procs EXCEPT ![p].pc = "check", ![p].op = "book"]
                    ELSE [procs EXCEPT ![p].pc = "write", ![p].sid = existing.id]
        /\ UNCHANGED <<store, context, identity, audio_failure_count, running,
                       starts, turn, out, login_seen>>

\* the INSERT or the UPDATE, committed, and the steps after the commit
ProcWrite(p) ==
    LET q == procs[p]
        a == AfterCommit(q.mode, "p", TRUE, {})
    IN  /\ q.pc = "write"
        /\ sessions' = IF q.op = "book"
                       THEN InsertSession(sessions, next_id, clock, q.emp, q.date,
                                          q.time, q.mode)
                       ELSE UpdateSession(sessions, clock, q.sid, q.emp, q.date,
                                          q.time, q.mode)
        /\ next_id' = IF q.op = "book" THEN next_id + 1 ELSE next_id
        /\ clock' = clock + 1
        /\ procs' = [procs EXCEPT ![p].pc = "idle", ![p].msg = Heard(a.msg),
                                  ![p].done = @ + 1]
        /\ UNCHANGED <<employees, courses, interactions, hr_commands, context,
                       identity, audio_failure_count, running, starts, turn, out,
                       login_seen>>

\* ----------------------------------------------------------- specifications
Pick(txts) == { u \in Transcripts : u.txt \in txts }

\* Spec: the scheduler under the dialogue that leads to it.  Every employee
\* gives a name, one of the two never a phone number; any store call of Book
\* and Reschedule and the SMS gateway may fail.
SchedulerReplies ==
    { r \in Replies : r.kind = "plain" }
    \cup { Reply("scheduled", "for", y, Token(11, 0, "AM")) : y \in Years }
    \cup { Reply("booked", "on", YearFloor, Token(2, 0, "PM")),
           Reply("rescheduled", "for", YearFloor, Token(2, 0, "PM")),
           Reply("rescheduled", "to", YearFloor, Token(9, 0, "")),
           Reply("scheduled", "for", YearFloor, Token(13, 0, "PM")) }

SchedulerInputs ==
    [U |-> Pick({"i want to learn python", "online", "yes",
                 "may 15 2025 at 11am", "reschedule my session"}),
     replies |-> SchedulerReplies,
     fail |-> RescheduleCalls,
     people |-> { Person("asha", None), Person("ravi", "p") },
     said |-> {"new user"},
     ident_fails |-> {FALSE},
     turns |-> MaxTurns]

Next ==
    \/ Start(SchedulerInputs)
    \/ Restart(SchedulerInputs)
    \/ Turn_AwaitingMode(SchedulerInputs)
    \/ Turn_CourseQuery(SchedulerInputs)
    \/ Turn_GenerativeFails(SchedulerInputs)
    \/ Turn_RescheduleRequest(SchedulerInputs)
    \/ Turn_RescheduleMode(SchedulerInputs)
    \/ Turn_Reschedule(SchedulerInputs)
    \/ Turn_Book(SchedulerInputs)

Spec == Init /\ [][Next]_vars

\* every transcript of the inputs is handled by an action of Next
Handled(in, branches) == \A u \in in.U : Branch(u) \in branches
SpecHandlesAll ==
    running => Handled(SchedulerInputs,
                       {"awaiting_mode", "course_query", "generative"})


\* SpecHR: the HR command surface, one turn longer than the scheduler's
\* dialogue so that a command can follow a login and a logout.  Failures are
\* those of the audit log and of the course update.
HRInputs ==
    [U |-> Pick({"hr login regex123", "hr login", "logout", "status report",
                 "view interactions", "update course python price to 16000",
                 "update course python price to 15000",
                 "update course python price to 12000",
                 "update course ruby price to 16000"}),
     replies |-> { r \in Replies : r.kind = "plain" }
                 \cup { Reply("scheduled", "for", YearFloor, Token(11, 0, "AM")) },
     fail |-> {"save_hr_command", "execute_update"},
     people |-> { Person("asha", "p") },
     said |-> {"new user"},
     ident_fails |-> {FALSE},
     turns |-> MaxTurns + 1]

NextHR ==
    \/ Start(HRInputs)
    \/ Restart(HRInputs)
    \/ Turn_HRLogin(HRInputs)
    \/ Turn_HRDenied(HRInputs)
    \/ Turn_ViewInteractions(HRInputs)
    \/ Turn_UpdateCourse(HRInputs)
    \/ Turn_StatusReport(HRInputs)
    \/ Turn_Logout(HRInputs)
    \/ Turn_AwaitingMode(HRInputs)
    \/ Turn_CourseQuery(HRInputs)
    \/ Turn_GenerativeFails(HRInputs)
    \/ Turn_Book(HRInputs)

SpecHR == Init /\ [][NextHR]_vars

SpecHRHandlesAll ==
    running => Handled(HRInputs,
                       {"hr_login", "hr_denied", "view_interactions",
                        "update_course", "status_report", "logout",
                        "awaiting_mode", "course_query", "generative"})

\* SpecLoop: the listening loop with everything that can go wrong in it: no
\* speech, speech not understood, the recognition service down, the
\* collaborator raising, store calls and the SMS gateway failing, and an
\* employee without a phone number.
LoopInputs ==
    [U |-> Pick({"i want to learn python", "offline", "may 15 2025 at 11am"}),
     replies |-> { r \in Replies : r.kind = "plain" /\ ~r.says_rescheduled }
                 \cup { Reply("scheduled", "for", YearFloor, Token(11, 0, "AM")) },
     fail |-> {"save_interaction", "fetch_course_details", "execute_book",
               "send_sms"},
     people |-> { Person("asha", None), Person("ravi", "p") },
     said |-> {"new user"},
     ident_fails |-> {FALSE},
     turns |-> MaxTurns]

NextLoop ==
    \/ Start(LoopInputs)
    \/ ListenTimeout
    \/ Unrecognized
    \/ RequestError
    \/ Turn_AwaitingMode(LoopInputs)
    \/ Turn_CourseQuery(LoopInputs)
    \/ Turn_GenerativeFails(LoopInputs)
    \/ Turn_Book(LoopInputs)

SpecLoop == Init /\ [][NextLoop]_vars

SpecLoopHandlesAll ==
    running => Handled(LoopInputs, {"awaiting_mode", "course_query", "generative"})

\* SpecOpen: a conversation whose first utterance has schedule intent, in
\* the words of the canned opener or in others, followed by anything.
Openers == {"schedule counseling", "book counseling", "i want to schedule a session"}

OpenInputs ==
    [U |-> Pick(IF turn = 0 THEN Openers
                ELSE {"python", "help choosing", "offline", "may 15 2025 at 11am"}),
     replies |-> SchedulerReplies,
     fail |-> {},
     people |-> { Person("asha", None), Person("ravi", "p") },
     said |-> {"new user"},
     ident_fails |-> {FALSE},
     turns |-> MaxTurns]

NextOpen ==
    \/ Start(OpenInputs)
    \/ Turn_Cache(OpenInputs)
    \/ Turn_AwaitingChoice(OpenInputs)
    \/ Turn_AwaitingMode(OpenInputs)
    \/ Turn_CourseQuery(OpenInputs)
    \/ Turn_GenerativeFails(OpenInputs)
    \/ Turn_Book(OpenInputs)

SpecOpen == Init /\ [][NextOpen]_vars

SpecOpenHandlesAll ==
    running => Handled(OpenInputs,
                       {"cache", "awaiting_choice", "awaiting_mode", "course_query",
                        "generative"})

\* SpecMode: the ways into AwaitingMode (a course query, a reschedule
\* request) and the utterances heard in it, a canned opener among them.
ModeInputs ==
    [U |-> Pick({"reschedule my session", "schedule counseling", "online",
                 "offline", "i want to learn python"}),
     replies |-> { r \in Replies : r.kind = "plain" /\ ~r.says_rescheduled },
     fail |-> {},
     people |-> { Person("ravi", "p") },
     said |-> {"new user"},
     ident_fails |-> {FALSE},
     turns |-> MaxTurns + 1]

NextMode ==
    \/ Start(ModeInputs)
    \/ Turn_Cache(ModeInputs)
    \/ Turn_AwaitingChoice(ModeInputs)
    \/ Turn_AwaitingMode(ModeInputs)
    \/ Turn_CourseQuery(ModeInputs)
    \/ Turn_GenerativeFails(ModeInputs)
    \/ Turn_RescheduleRequest(ModeInputs)
    \/ Turn_Book(ModeInputs)

SpecMode == Init /\ [][NextMode]_vars

SpecModeHandlesAll ==
    running => Handled(ModeInputs,
                       {"cache", "awaiting_choice", "awaiting_mode", "course_query",
                        "generative"})

\* SpecTrace: one conversation that says the four lines of Script in order,
\* turn i hearing line i.  The collaborator answers each as it likes; the
\* insert and the SMS gateway may fail.
Script == <<"i want to take admission", "python", "offline", "may 15 2025 at 11am">>

ScriptInputs(i) ==
    [U |-> Pick({Script[i]}),
     replies |-> SchedulerReplies,
     fail |-> {"execute_book", "send_sms"},
     people |-> { Person("asha", None), Person("ravi", "p") },
     said |-> {"new user"},
     ident_fails |-> {FALSE},
     turns |-> Len(Script)]

\* the inputs of the turn that comes next
NextLine == ScriptInputs(IF turn < Len(Script) THEN turn + 1 ELSE Len(Script))

NextTrace ==
    \/ Start(NextLine)
    \/ Turn_AwaitingMode(NextLine)
    \/ Turn_CourseQuery(NextLine)
    \/ Turn_GenerativeFails(NextLine)
    \/ Turn_Book(NextLine)

SpecTrace == Init /\ [][NextTrace]_vars

SpecTraceHandlesAll ==
    running => Handled(NextLine, {"awaiting_mode", "course_query", "generative"})

\* SpecResolve: detect_course as a function of the transcript and of the
\* previously selected course.  The previous course is drawn at the start,
\* each step resolves one transcript against it.
InitResolve ==
    /\ employees = <<>>
    /\ sessions = {}
    /\ next_id = 1
    /\ clock = 0
    /\ courses = SeedCourses
    /\ interactions = <<>>
    /\ hr_commands = <<>>
    /\ employee_id = 0
    /\ employee_name = "Unknown"
    /\ employee_phone = None
    /\ sms_consent = TRUE
    /\ unique_code = NoCode
    /\ last_intent = None
    /\ counseling_context = None
    /\ selected_course \in CourseNames \cup {None}
    /\ counseling_mode = None
    /\ is_hr_authenticated = FALSE
    /\ hr_user = "HR_Admin"
    /\ audio_failure_count = 0
    /\ running = FALSE
    /\ starts = 1
    /\ turn = 0
    /\ out = NoOut
    /\ login_seen = FALSE
    /\ procs = [p \in Procs |-> IdleProc]

\* detected_course = detect_course(transcript_lower, self.selected_course)
DetectCourse ==
    \E text \in ResolverTexts :
        /\ turn < MaxTurns
        /\ turn' = turn + 1
        /\ out' = [NoOut EXCEPT !.branch = "detect_course", !.text = text,
                                !.ret = detect_course(KeywordsIn(text),
                                                      selected_course)]
        /\ UNCHANGED <<store, context, identity, audio_failure_count, running,
                       starts, login_seen, procs>>

NextResolve == DetectCourse

SpecResolve == InitResolve /\ [][NextResolve]_vars

\* SpecCache: the opening dialogue, with the canned openers heard before and
\* after a course is selected.  The collaborator answers without a date.
CacheInputs ==
    [U |-> Pick({"schedule counseling", "course details", "just schedule",
                 "book counseling", "i want to learn python", "help choosing",
                 "online"}),
     replies |-> { r \in Replies : r.kind = "plain" },
     fail |-> {},
     people |-> { Person("ravi", "p") },
     said |-> {"new user"},
     ident_fails |-> {FALSE},
     turns |-> MaxTurns + 1]

NextCache ==
    \/ Start(CacheInputs)
    \/ Turn_Cache(CacheInputs)
    \/ Turn_AwaitingChoice(CacheInputs)
    \/ Turn_AwaitingMode(CacheInputs)
    \/ Turn_AfterSuggestion(CacheInputs)
    \/ Turn_CourseQuery(CacheInputs)
    \/ Turn_GenerativeFails(CacheInputs)
    \/ Turn_Book(CacheInputs)

SpecCache == Init /\ [][NextCache]_vars

SpecCacheHandlesAll ==
    running => Handled(CacheInputs,
                       {"cache", "awaiting_choice", "awaiting_mode",
                        "after_suggestion", "course_query", "generative"})

\* SpecFlag: the HR command surface used in the middle of the dialogue: a
\* login, the commands and a logout heard in every dialogue state, and the
\* dialogue's own utterances heard with and without the HR flag.
FlagInputs ==
    [U |-> Pick({"hr login regex123", "logout", "status report",
                 "view interactions", "update course python price to 16000",
                 "schedule counseling", "help choosing", "i want to learn python",
                 "online"}),
     replies |-> { r \in Replies : r.kind = "plain" /\ ~r.says_rescheduled },
     fail |-> {},
     people |-> { Person("ravi", "p") },
     said |-> {"new user"},
     ident_fails |-> {FALSE},
     turns |-> MaxTurns + 1]

NextFlag ==
    \/ Start(FlagInputs)
    \/ Turn_HRLogin(FlagInputs)
    \/ Turn_ViewInteractions(FlagInputs)
    \/ Turn_UpdateCourse(FlagInputs)
    \/ Turn_StatusReport(FlagInputs)
    \/ Turn_Logout(FlagInputs)
    \/ Turn_Cache(FlagInputs)
    \/ Turn_AwaitingChoice(FlagInputs)
    \/ Turn_AwaitingMode(FlagInputs)
    \/ Turn_CourseQuery(FlagInputs)
    \/ Turn_GenerativeFails(FlagInputs)
    \/ Turn_Book(FlagInputs)

SpecFlag == Init /\ [][NextFlag]_vars

SpecFlagHandlesAll ==
    running => Handled(FlagInputs,
                       {"hr_login", "view_interactions", "update_course",
                        "status_report", "logout", "cache", "awaiting_choice",
                        "awaiting_mode", "course_query", "generative"})

\* SpecIdent: identification at the start and inside the loop.  A person may
\* give no name, the store may fail during identification, and a returning
\* user says a code, stored or not; a second process runs on the same store.
IdentInputs ==
    [U |-> Pick({"hr login regex123", "may 15 2025 at 11am"}),
     replies |-> { r \in Replies : r.kind = "plain" /\ ~r.says_rescheduled }
                 \cup { Reply("scheduled", "for", YearFloor, Token(11, 0, "AM")) },
     fail |-> {},
     people |-> { Person(None, None), Person("asha", "p") },
     said |-> {"new user", "code"},
     ident_fails |-> {FALSE, TRUE},
     turns |-> MaxTurns]

NextIdent ==
    \/ Start(IdentInputs)
    \/ Restart(IdentInputs)
    \/ Turn_Identify(IdentInputs)
    \/ Turn_IdentifyRaises(IdentInputs)
    \/ Turn_HRLogin(IdentInputs)
    \/ Turn_GenerativeFails(IdentInputs)
    \/ Turn_Book(IdentInputs)

SpecIdent == Init /\ [][NextIdent]_vars

SpecIdentHandlesAll ==
    running => Handled(IdentInputs, {"identify", "hr_login", "generative"})

\* SpecResched: one conversation of an employee who books a session and then
\* asks to move it: a date, the reschedule request in the user's words or as
\* the canned opener, the mode, and then the new date or a confirmation.
ReschedLines ==
    << {"may 15 2025 at 11am"},
       {"reschedule my session", "reschedule counseling"},
       {"online", "offline"},
       {"may 15 2025 at 11am", "yes"} >>

ReschedInputs ==
    [U |-> Pick(ReschedLines[IF turn < Len(ReschedLines) THEN turn + 1
                             ELSE Len(ReschedLines)]),
     replies |-> SchedulerReplies,
     fail |-> {},
     people |-> { Person("ravi", "p") },
     said |-> {"new user"},
     ident_fails |-> {FALSE},
     turns |-> MaxTurns + 1]

NextResched ==
    \/ Start(ReschedInputs)
    \/ Turn_Cache(ReschedInputs)
    \/ Turn_AwaitingMode(ReschedInputs)
    \/ Turn_GenerativeFails(ReschedInputs)
    \/ Turn_RescheduleRequest(ReschedInputs)
    \/ Turn_RescheduleMode(ReschedInputs)
    \/ Turn_Reschedule(ReschedInputs)
    \/ Turn_Book(ReschedInputs)

SpecResched == Init /\ [][NextResched]_vars

SpecReschedHandlesAll ==
    running => Handled(ReschedInputs, {"cache", "awaiting_mode", "generative"})

\* SpecCourse: course updates whose name is a whole keyword of one course,
\* a word that two course names share, or no course's name, heard with and
\* without the HR flag.
CourseInputs ==
    [U |-> Pick({"hr login regex123", "update course python price to 16000",
                 "update course python price to 15000",
                 "update course development price to 16000",
                 "update course ruby price to 16000"}),
     replies |-> { r \in Replies : r.kind = "plain" /\ ~r.says_rescheduled },
     fail |-> {"execute_update"},
     people |-> { Person("asha", "p") },
     said |-> {"new user"},
     ident_fails |-> {FALSE},
     turns |-> MaxTurns + 1]

NextCourse ==
    \/ Start(CourseInputs)
    \/ Turn_HRLogin(CourseInputs)
    \/ Turn_UpdateCourse(CourseInputs)
    \/ Turn_AwaitingMode(CourseInputs)
    \/ Turn_CourseQuery(CourseInputs)

SpecCourse == Init /\ [][NextCourse]_vars

SpecCourseHandlesAll ==
    running => Handled(CourseInputs,
                       {"hr_login", "update_course", "awaiting_mode", "course_query"})

\* SpecKeep: conversations that select a course and go on: bookings and
\* reschedules that complete or fail, the canned opener heard before and
\* after, an HR login and logout, the catalog and the log failing, and a
\* second conversation on the same store.
KeepInputs ==
    [U |-> Pick({"i want to learn python", "schedule counseling", "yes",
                 "hr login regex123", "logout", "offline"}),
     replies |-> { r \in Replies : r.kind = "plain" /\ ~r.says_rescheduled }
                 \cup { Reply("scheduled", "for", YearFloor, Token(11, 0, "AM")),
                        Reply("rescheduled", "for", YearFloor, Token(2, 0, "PM")) },
     fail |-> {"save_interaction", "fetch_course_details", "execute_book"},
     people |-> { Person("ravi", "p") },
     said |-> {"new user"},
     ident_fails |-> {FALSE},
     turns |-> MaxTurns + 1]

NextKeep ==
    \/ Start(KeepInputs)
    \/ Restart(KeepInputs)
    \/ Turn_HRLogin(KeepInputs)
    \/ Turn_Logout(KeepInputs)
    \/ Turn_Cache(KeepInputs)
    \/ Turn_AwaitingChoice(KeepInputs)
    \/ Turn_AwaitingMode(KeepInputs)
    \/ Turn_CourseQuery(KeepInputs)
    \/ Turn_GenerativeFails(KeepInputs)
    \/ Turn_Reschedule(KeepInputs)
    \/ Turn_Book(KeepInputs)

SpecKeep == Init /\ [][NextKeep]_vars

SpecKeepHandlesAll ==
    running => Handled(KeepInputs,
                       {"hr_login", "logout", "cache", "awaiting_choice",
                        "awaiting_mode", "course_query", "generative"})

\* SpecExtract: the date and time extraction of Book and Reschedule, over
\* every anchoring verb and preposition and over time tokens with and without
\* a suffix, convertible or not.  The cached opener "reschedule counseling"
\* makes a reschedule pending, so that Reschedule is given every reply.
ExtractTokens ==
    { Token(11, 0, "AM"), Token(2, 0, "PM"), Token(12, 0, "AM"),
      Token(12, 30, "PM"), Token(0, 15, "AM"), Token(13, 0, "PM"),
      Token(9, 0, ""), Token(17, 45, ""),
      [h |-> 11, m |-> 0, suf |-> "AM", sp |-> FALSE] }

ExtractReplies ==
    { r \in Replies : r.kind = "plain" }
    \cup { Reply(v, p, YearFloor, Token(11, 0, "AM")) : v \in Verbs, p \in Preps }
    \cup { Reply("scheduled", "for", y, t) : y \in Years, t \in ExtractTokens }
    \cup { [Reply("set", "for", 2023, Token(17, 45, "")) EXCEPT !.md = "12-31"],
           [Reply("booked", "", MaxYear, Token(2, 0, "PM")) EXCEPT !.md = "12-31"] }

ExtractInputs ==
    [U |-> Pick({"reschedule counseling", "yes", "may 15 2025 at 11am"}),
     replies |-> ExtractReplies,
     fail |-> {},
     people |-> { Person("ravi", "p") },
     said |-> {"new user"},
     ident_fails |-> {FALSE},
     turns |-> MaxTurns]

NextExtract ==
    \/ Start(ExtractInputs)
    \/ Turn_Cache(ExtractInputs)
    \/ Turn_GenerativeFails(ExtractInputs)
    \/ Turn_Reschedule(ExtractInputs)
    \/ Turn_Book(ExtractInputs)

SpecExtract == Init /\ [][NextExtract]_vars

SpecExtractHandlesAll ==
    running => Handled(ExtractInputs, {"cache", "generative"})

\* SpecConc: two processes book and reschedule on one store
ConcReplies ==
    { Reply("scheduled", "for", y, Token(11, 0, "AM")) : y \in Years }
    \cup { Reply("rescheduled", "for", YearFloor, Token(2, 0, "PM")) }

NextConc ==
    \E p \in Procs :
        \/ ProcStart(p)
        \/ ProcBegin(p, ConcReplies)
        \/ ProcCheck(p)
        \/ ProcFetch(p)
        \/ ProcWrite(p)

SpecConc == Init /\ [][NextConc]_vars

\* --------------------------------------------------------------- properties
Occupied(rows, d, t) == \E s \in rows : s.date = d /\ s.time = t
Confirmations == {"confirmation", "confirmation_no_sms"}
Mine(rows) == { s \in rows : s.emp = employee_id }
\* a turn that ran Book or Reschedule and extracted a date and a time
Extracted(o) == o.branch \in {"book", "reschedule"} /\ o.time # NoTime

\* C1: no two persisted sessions have the same (date, time), whoever owns
\* them, after any sequence of Book and Reschedule of one process at a time.
C1_SlotExclusive ==
    \A s1, s2 \in sessions :
        (s1.date = s2.date /\ s1.time = s2.time) => s1 = s2

\* two employees own sessions and the last turn rescheduled one of them
C1_Witness ==
    /\ \E s1, s2 \in sessions : s1.emp # s2.emp
    /\ out.branch = "reschedule" /\ out.op = "reschedule"
    /\ out.msg \in Confirmations

\* C10: every persisted session has a date whose year is 2025 or later.
C10_YearFloor == \A s \in sessions : s.date.y >= 2025

\* a session stored from a reply that named a year before 2025
C10_Witness ==
    /\ out.year_fixed
    /\ out.msg \in Confirmations
    /\ \E s \in sessions : s.date = out.date /\ s.time = out.time


\* a step that handled one transcript with Book or Reschedule and extracted
\* a date and a time from the reply
SchedulerTurn == turn' = turn + 1 /\ Extracted(out')
\* the extracted slot was free, resp. taken, before the turn
SlotWasFree == ~Occupied(sessions, out'.date, out'.time)
SlotWasTaken == Occupied(sessions, out'.date, out'.time)
\* exactly one row was added: the bound employee's, at the extracted slot
OneRowAdded ==
    \E s \in sessions' \ sessions :
        /\ sessions' = sessions \cup {s}
        /\ s.emp = employee_id
        /\ s.date = out'.date /\ s.time = out'.time
        /\ s.mode = ModeOrOffline
\* the part of the context that a turn of the scheduler never changes
DialogueKept ==
    /\ counseling_context' = counseling_context
    /\ selected_course' = selected_course
    /\ counseling_mode' = counseling_mode
    /\ is_hr_authenticated' = is_hr_authenticated

\* C4: a Book whose extracted slot is free and whose store calls all succeed
\* adds exactly one session row for the employee at that slot, runs the
\* notification step and returns a confirmation, for every employee and mode.
C4_BookSucceeds ==
    [][ (SchedulerTurn /\ out'.branch = "book" /\ SlotWasFree
         /\ out'.fault = "none")
        => (OneRowAdded /\ out'.notify \in {"sent", "not_sent"}
            /\ out'.msg \in Confirmations) ]_vars

\* C5: a Book in which a store call fails returns the generic store-failure
\* message, not the slot-taken message, and adds or changes no session row.
C5_BookStoreFailure ==
    [][ (SchedulerTurn /\ out'.op = "book"
         /\ out'.fault \in {"check_book", "connect_book", "execute_book"})
        => (out'.ret = "db_error" /\ sessions' = sessions) ]_vars

\* the slots a reply can name
SlotDates == { NormaliseDate(y, md) : y \in Years, md \in MonthDays }
SlotTimes == { NormaliseTime(tok) : tok \in { k \in TimeTokens : ~TimeError(k) } }

\* C6: for every (date, time), check_availability answers false exactly when
\* a persisted session has that date and time, and true otherwise.
C6_AvailabilityExact ==
    \A d \in SlotDates, t \in SlotTimes, failed \in BOOLEAN :
        check_availability(sessions, d, t, failed) = ~Occupied(sessions, d, t)

\* C7 (as stated): a Book or Reschedule whose extracted slot is taken returns
\* the slot-taken message, changes no session row and leaves dialogue state,
\* selected course, mode, last intent and HR flag as they were.
C7_Original ==
    [][ (SchedulerTurn /\ SlotWasTaken)
        => (out'.msg = "slot_taken" /\ sessions' = sessions /\ DialogueKept
            /\ last_intent' = last_intent) ]_vars

\* C7: a Book or Reschedule whose extracted slot is taken returns the
\* slot-taken message, changes no session row and leaves dialogue state,
\* selected course, mode and HR flag as they were; the last intent is the
\* turn's own: "schedule" after Book, "reschedule" after Reschedule.
C7_SlotConflict ==
    [][ (SchedulerTurn /\ SlotWasTaken)
        => (out'.msg = "slot_taken" /\ sessions' = sessions /\ DialogueKept
            /\ last_intent' = IF out'.branch = "book" THEN "schedule"
                              ELSE "reschedule") ]_vars

\* a Book met a taken slot while the store answered every call
C7_Witness ==
    /\ out.branch = "book" /\ out.ret = "slot_taken" /\ out.fault = "none"
    /\ Occupied(sessions, out.date, out.time)
    /\ last_intent = "schedule"

\* the employee's most recently created session: the highest id
Latest(rows) == CHOOSE s \in rows : \A o \in rows : o.id <= s.id

\* C8: when the employee has a session, the new slot is free and the store
\* calls succeed, Reschedule updates the employee's most recently created
\* session in place: same id, new date, time and mode; the number of sessions
\* is unchanged, every other session is unchanged, and the old slot is free.
C8_RescheduleInPlace ==
    [][ (SchedulerTurn /\ out'.branch = "reschedule" /\ Mine(sessions) # {}
         /\ SlotWasFree /\ out'.fault = "none")
        => LET old == Latest(Mine(sessions))
           IN  /\ \E n \in sessions' :
                    /\ n.id = old.id /\ n.emp = old.emp
                    /\ n.date = out'.date /\ n.time = out'.time
                    /\ n.mode = ModeOrOffline
                    /\ sessions' \ {n} = sessions \ {old}
               /\ Cardinality(sessions') = Cardinality(sessions)
               /\ ~Occupied(sessions', old.date, old.time) ]_vars

\* a session was rescheduled while another employee's session stayed
C8_Witness ==
    /\ out.branch = "reschedule" /\ out.op = "reschedule"
    /\ out.fault = "none" /\ out.time # NoTime /\ out.ret # "slot_taken"
    /\ \E s \in Mine(sessions) : s.date = out.date /\ s.time = out.time
    /\ sessions \ Mine(sessions) # {}

\* C9: when the employee has no session, the new slot is free and the store
\* calls succeed, Reschedule has the effect of Book: exactly one new row for
\* the employee at the extracted slot, and a confirmation.
C9_RescheduleBooks ==
    [][ (SchedulerTurn /\ out'.branch = "reschedule" /\ Mine(sessions) = {}
         /\ SlotWasFree /\ out'.fault = "none")
        => (OneRowAdded /\ out'.msg \in Confirmations) ]_vars


\* C2: when two processes run Book or Reschedule against one store, their
\* availability checks and inserts or updates interleaving in any order, the
\* store never holds two sessions with the same (date, time).
C2_ConcurrentExclusive ==
    \A d \in SlotDates, t \in SlotTimes :
        Cardinality({ s \in sessions : s.date = d /\ s.time = t }) <= 1

Privileged == {"view_interactions", "update_course", "status_report"}

\* C3: a privileged command (view interactions, update course, status report)
\* is executed, and the audit log or the courses are written, only in a turn
\* before which "hr login" with the secret was heard and no logout has been
\* handled since; the turn after a handled logout executes none.
C3_HRGating ==
    [][ turn' = turn + 1
        => /\ out'.branch \in Privileged => login_seen
           /\ (hr_commands' # hr_commands \/ courses' # courses) => login_seen
           /\ out.branch = "logout" => out'.branch \notin Privileged ]_vars

\* a privileged command was executed and audited after a login
C3_Witness ==
    /\ out.branch \in Privileged
    /\ hr_commands # <<>>
    /\ login_seen /\ is_hr_authenticated


\* a step in which Book or Reschedule matched its pattern in the reply
MatchedStep ==
    /\ turn' = turn + 1
    /\ \/ out'.branch = "book" /\ BookPatternMatches(out'.reply)
       \/ out'.branch = "reschedule" /\ ReschedulePatternMatches(out'.reply)

\* a 12-hour clock time written with white space before its suffix
Valid12(tok) == tok.h \in 1..12 /\ tok.m \in 0..59 /\ tok.sp
\* the 24-hour time equal to a 12-hour time
Clock24(tok) ==
    [h |-> (tok.h % 12) + (IF tok.suf = "PM" THEN 12 ELSE 0), m |-> tok.m]

\* C11: a matched time token with AM or PM is extracted as the equal 24-hour
\* time; when it cannot be converted the turn ends in the time-format
\* re-prompt and no session row changes; a token without AM or PM is
\* extracted as written.
C11_TimeNormalised ==
    [][ MatchedStep
        => LET tok == out'.reply.tok
           IN  IF tok.suf \notin {"AM", "PM"}
               THEN out'.time = [h |-> tok.h, m |-> tok.m]
               ELSE IF Valid12(tok)
               THEN out'.time = Clock24(tok) /\ out'.ret # "invalid_time"
               ELSE /\ out'.ret = "invalid_time" /\ out'.msg = "invalid_time"
                    /\ out'.time = NoTime
                    /\ sessions' = sessions ]_vars

\* "12:00 AM" was extracted as 00:00 and a session stored at that time
C11_Witness ==
    /\ out.reply.tok = Token(12, 0, "AM")
    /\ out.time = [h |-> 0, m |-> 0]
    /\ \E s \in sessions : s.time = out.time


\* the time C11 describes for a token
TimeOf(tok) ==
    IF tok.suf \in {"AM", "PM"} THEN Clock24(tok) ELSE [h |-> tok.h, m |-> tok.m]

\* C12: a matched date with a year below 2025 is extracted as 2025 with the
\* same month and day, a year of 2025 or above as written; the rewrite
\* leaves the time and the mode as they are without it.
C12_YearRewrite ==
    [][ MatchedStep
        => LET r == out'.reply
               want == [y |-> IF r.y < 2025 THEN 2025 ELSE r.y, md |-> r.md]
           IN  /\ out'.date = want
               /\ out'.time # NoTime => out'.time = TimeOf(r.tok)
               /\ \A n \in sessions' \ sessions :
                    /\ n.date = want
                    /\ n.time = TimeOf(r.tok)
                    /\ n.mode = ModeOrOffline ]_vars

\* a session stored on 2025-12-31 from a reply that said 2023-12-31
C12_Witness ==
    /\ out.reply.y = 2023 /\ out.reply.md = "12-31"
    /\ \E s \in sessions :
        /\ s.date = [y |-> 2025, md |-> "12-31"]
        /\ s.time = [h |-> 17, m |-> 45]


\* the reply holds no phrase that the operation of the turn accepts: none at
\* all, or one with a verb or a preposition outside its pattern
NoPhraseFor(branch, r) ==
    \/ r.kind # "phrase"
    \/ branch = "book" /\ r.prep = "to"
    \/ branch = "reschedule" /\ r.verb \notin {"scheduled", "rescheduled"}

NoMatchStep ==
    /\ turn' = turn + 1
    /\ out'.branch \in {"book", "reschedule"}
    /\ NoPhraseFor(out'.branch, out'.reply)

RePrompts == {"no_datetime", "no_datetime_reschedule"}

\* C13 (as stated): when the text holds no match of the scheduling pattern,
\* the turn ends in the date/time re-prompt, no session row changes, and
\* dialogue state, selected course, mode, last intent and HR flag are as
\* before the turn.
C13_Original ==
    [][ NoMatchStep
        => (out'.msg \in RePrompts /\ sessions' = sessions /\ DialogueKept
            /\ last_intent' = last_intent) ]_vars

\* C13: when the text holds no match of the scheduling pattern, the turn ends
\* in the date/time re-prompt, no session row changes, and dialogue state,
\* selected course, mode and HR flag are as before the turn; the last intent
\* is the turn's own: "schedule" after Book, "reschedule" after Reschedule.
C13_NoDateTime ==
    [][ NoMatchStep
        => (out'.msg \in RePrompts /\ sessions' = sessions /\ DialogueKept
            /\ next_id' = next_id
            /\ last_intent' = IF out'.branch = "book" THEN "schedule"
                              ELSE "reschedule") ]_vars

\* a Book was given a reply without a phrase while the store held a session
C13_Witness ==
    /\ out.branch = "book" /\ out.reply.kind = "plain"
    /\ out.msg = "no_datetime"
    /\ sessions # {}


\* C14: Book and Reschedule extract the same (date, time) from every text, or
\* report the same failure; both accept each of the verbs scheduled, booked,
\* set and rescheduled, and the same prepositions.
C14_OneExtractor ==
    /\ out.branch \in {"book", "reschedule"}
        => BookExtraction(out.reply) = RescheduleExtraction(out.reply)
    /\ (out.branch \in {"book", "reschedule"} /\ out.reply.kind = "phrase"
        /\ out.reply.verb \in Verbs /\ out.reply.prep \in Preps)
        => BookPatternMatches(out.reply) /\ ReschedulePatternMatches(out.reply)


\* a step that handled a price command with a numeric value while the store
\* answered the update
PriceStep ==
    /\ turn' = turn + 1
    /\ out'.branch = "update_course"
    /\ out'.cmd.matched /\ out'.cmd.field = "price" /\ out'.cmd.numeric
    /\ out'.ret \notin {"db_connection_failed", "update_error"}

\* the course exists: a stored course name contains the word of the command
Exists(name) == \E c \in CourseNames : c \in Like(name)

\* C15: a price at or below 12000 is rejected with the validation message; a
\* price above 12000 is applied when the course exists and reported NotFound
\* when it does not; a rejected or NotFound update changes no course row.
C15_PriceRule ==
    [][ PriceStep
        => LET cmd == out'.cmd
           IN  IF cmd.value <= 12000
               THEN out'.msg = "price_rejected" /\ courses' = courses
               ELSE IF ~Exists(cmd.course)
               THEN out'.msg = "course_not_found" /\ courses' = courses
               ELSE /\ out'.msg = "updated"
                    /\ \A c \in Like(cmd.course) : courses'[c].fees = cmd.value ]_vars


\* C16: every privileged action handled while HR-authenticated (view
\* interactions, update course, status report, logout), whether it succeeds,
\* is rejected, reports NotFound or fails, appends one audit record naming the
\* executing identity.
C16_AuditComplete ==
    [][ (turn' = turn + 1 /\ out'.branch \in Privileged \cup {"logout"})
        => /\ Len(hr_commands') = Len(hr_commands) + 1
           /\ hr_commands'[Len(hr_commands')].by = hr_user ]_vars


\* transcripts that contain "hr login" without the shared secret
Denied == { u \in Transcripts : "hr login" \in u.has /\ HR_PASSWORD \notin u.has }

\* C17: for an identified employee a transcript with "hr login" and without
\* the shared secret is always handled by the denial branch, and that branch
\* answers with the password re-prompt and leaves the conversation context as
\* it was: the HR flag keeps its value, and dialogue state, selected course,
\* mode and last intent are unchanged.
C17_PrivilegeDenied ==
    [][ turn' = turn + 1
        => /\ Bound => \A u \in Denied : Branch(u) = "hr_denied"
           /\ out'.branch = "hr_denied"
              => /\ out'.msg = "password_prompt"
                 /\ is_hr_authenticated' = is_hr_authenticated
                 /\ <<counseling_context, selected_course, counseling_mode,
                      last_intent, hr_user>>' =
                    <<counseling_context, selected_course, counseling_mode,
                      last_intent, hr_user>>
                 /\ <<courses, hr_commands, sessions>>' =
                    <<courses, hr_commands, sessions>> ]_vars

\* a login without the secret was denied while the HR flag was set, and the
\* flag is still set
C17_Witness ==
    /\ out.branch = "hr_denied"
    /\ out.msg = "password_prompt"
    /\ is_hr_authenticated
    /\ login_seen


\* C18: a turn that starts with a course selected is never answered from the
\* canned response cache, even when its transcript equals a cache key; the
\* cache answers only a transcript that equals a key while no course is
\* selected, and it answers every such transcript of an identified employee.
C18_CacheBypass ==
    [][ turn' = turn + 1
        => /\ selected_course # None => out'.branch # "cache"
           /\ out'.branch = "cache" => (out'.key \in CacheKeys /\ selected_course = None)
           /\ (Bound /\ out'.key \in CacheKeys /\ selected_course = None)
              => out'.branch = "cache" ]_vars

\* a transcript equal to a cache key was handled by the dialogue, not by the
\* cache, with a course selected
C18_Witness ==
    /\ out.key \in CacheKeys
    /\ out.branch \in {"awaiting_choice", "awaiting_mode", "after_suggestion",
                       "course_query", "generative", "book"}
    /\ selected_course # None


\* the canonical name of a catalog keyword
course_map(kw) ==
    CASE kw = <<"python">> -> "Python Programming"
      [] kw = <<"java">> -> "Java Development"
      [] kw = <<"data", " ", "science">> -> "Data Science"
      [] kw = <<"web", " ", "development">> -> "Web Development"

Catalog == { <<"python">>, <<"java">>, <<"data", " ", "science">>,
             <<"web", " ", "development">> }

\* the catalog keywords the resolved transcript contains
Matched == { kw \in Catalog : Contains(out.text, kw) }

C20_ResolverCarryOver ==
    (out.branch = "detect_course" /\ Matched = {})
        => /\ selected_course # None => out.ret = selected_course
           /\ selected_course = None => out.ret = None

\* a transcript without a keyword was resolved to the course selected before
C20_Witness ==
    /\ out.branch = "detect_course"
    /\ Matched = {}
    /\ out.text # <<>>
    /\ selected_course = "Java Development"
    /\ out.ret = "Java Development"


\* the answers of the code that carry the name of the selected course
NamesCourse(msg) == msg \in {"ask_mode", "ask_when", "course_info"}

\* C21: with a bound employee, no selected course and an empty slot, the turns
\* "I want to take admission", "python", "offline", "May 15 2025 at 11am" lead
\* to AwaitingChoice, then AwaitingMode with course "Python Programming", then
\* AwaitingScheduleInput, and the fourth turn, when the collaborator states
\* the slot and the store works, persists a session at 2025-05-15 11:00 and
\* confirms it naming the course.
C21_EndToEnd ==
    /\ (running /\ turn = 1) => counseling_context = "awaiting_choice"
    /\ (running /\ turn = 2)
        => counseling_context = "awaiting_mode" /\ selected_course = "Python Programming"
    /\ (running /\ turn = 3)
        => counseling_context = None /\ counseling_mode = "offline"
    /\ (running /\ turn = 4 /\ out.reply = Reply("scheduled", "for", 2025, Token(11, 0, "AM"))
        /\ out.fault = "none")
        => /\ \E x \in sessions : /\ x.emp = employee_id
                                   /\ x.date = [y |-> 2025, md |-> "05-15"]
                                   /\ x.time = [h |-> 11, m |-> 0]
           /\ NamesCourse(out.msg)


\* a session of the employee was added in the step
RowAdded == \E x \in sessions' \ sessions : x.emp = employee_id

\* C22: the turn in which the user selects online mode invokes the counseling
\* collaborator for the selected course, and when the collaborator fails (as
\* its call does wherever the code makes it) a session is persisted and
\* confirmed by Autoschedule; a failed collaborator never leaves the turn with
\* an apology only.
C22_OnlineFallback ==
    [][ turn' = turn + 1
        => /\ (out'.branch \in {"awaiting_mode", "reschedule_mode"}
               /\ counseling_mode' = "online" /\ out'.msg = "ask_when")
              => (RowAdded /\ out'.msg \in {"confirmation", "confirmation_no_sms"})
           /\ (out'.branch \in {"book", "reschedule"} /\ ModeOrOffline = "online"
               /\ out'.ret = online_counseling_call)
              => out'.msg # "apology" ]_vars


\* the counseling collaborator failed in a turn of the online mode: the case
\* in which Autoschedule is due
AutoscheduleDue ==
    /\ turn' = turn + 1
    /\ out'.branch \in {"book", "reschedule"}
    /\ ModeOrOffline = "online"
    /\ out'.ret = online_counseling_call

\* C23: when Autoschedule is due it either persists and confirms one session
\* at a (date, slot) that check_availability accepts, the first such pair of
\* its search, or, with the whole horizon occupied, reports NoSlotAvailable
\* and persists nothing.
C23_AutoscheduleSearch ==
    [][ AutoscheduleDue
        => \/ /\ out'.msg \in Confirmations
              /\ \E x \in sessions' \ sessions :
                    /\ sessions' = sessions \cup {x}
                    /\ x.emp = employee_id
                    /\ check_availability(sessions, x.date, x.time, FALSE)
           \/ /\ out'.msg = "no_slot_available"
              /\ sessions' = sessions ]_vars


\* C24: once no input has arrived for the bounded idle duration the context
\* is the initial one: no employee bound, no selected course, no counseling
\* mode, no dialogue state; employees, sessions and audit records are as they
\* were before the wait.
C24_IdleReset ==
    [][ (out'.branch = "timeout" /\ out'.waited = MaxIdle)
        => /\ employee_id' = 0 /\ employee_name' = "Unknown"
           /\ selected_course' = None
           /\ counseling_mode' = None
           /\ counseling_context' = None
           /\ <<employees, sessions, hr_commands, interactions>>' =
              <<employees, sessions, hr_commands, interactions>> ]_vars

\* C26: no failure while a turn is handled or a transcript is awaited ends
\* the transcription loop: once the loop runs, it runs after every step, and
\* a turn that failed is followed by a state in which the loop listens.
C26_LoopSurvives ==
    [][ running => running' ]_vars

\* the loop is listening after its last turn ended in the handler's apology
\* with a session persisted
C26_Witness ==
    /\ running
    /\ turn = MaxTurns
    /\ out.msg = "apology"
    /\ sessions # {}


\* C25: every transcript turn handled for a bound employee, also one that
\* ends in an error or an apology, has added its record to the interaction
\* log when the turn is over, after the records of all earlier turns.
C25_TurnAudit ==
    [][ (turn' = turn + 1 /\ Bound)
        => /\ Len(interactions') > Len(interactions)
           /\ SubSeq(interactions', 1, Len(interactions)) = interactions
           /\ \A i \in (Len(interactions) + 1)..Len(interactions') :
                 /\ interactions'[i].turn = turn + 1
                 /\ interactions'[i].emp = employee_id ]_vars


\* Idle: an employee is bound, no workflow is pending, no course is selected
Idle ==
    /\ running /\ Bound
    /\ counseling_context = None
    /\ selected_course = None
    /\ counseling_mode = None

\* C27: from Idle, a first utterance with schedule intent moves the dialogue
\* state to AwaitingChoice and is answered with the question whether the user
\* has a course in mind, and no session is written (the collaborator, where
\* the code asks it, answers).
C27_ScheduleOpens ==
    [][ (Idle /\ turn = 0 /\ turn' = 1 /\ out'.branch # "generative")
        => /\ counseling_context' = "awaiting_choice"
           /\ out'.msg \in {"schedule counseling", "ask_choice"}
           /\ sessions' = sessions ]_vars


\* C29: in every reachable state of the conversation, a dialogue state of
\* AwaitingMode comes with a selected course.
C29_ModeHasCourse ==
    counseling_context = "awaiting_mode" => selected_course # None


\* the branches of the HR command surface
HRBranches == {"hr_login", "hr_denied", "view_interactions", "update_course",
               "status_report", "logout"}

\* C28: a non-HR utterance heard in AwaitingMode either contains "online" or
\* "offline", and then the mode is set to that value and the dialogue leaves
\* AwaitingMode asking for the date and time, or it is answered with the
\* online/offline re-prompt, with dialogue state, selected course and mode
\* unchanged; neither turn attempts Book or Reschedule.
C28_AwaitingMode ==
    [][ (turn' = turn + 1 /\ Bound /\ counseling_context = "awaiting_mode"
         /\ out'.branch \notin HRBranches)
        => /\ \/ /\ out'.msg = "ask_when"
                 /\ counseling_mode' \in {"online", "offline"}
                 /\ counseling_context' = None
                 /\ selected_course' = selected_course
              \/ /\ out'.msg = "ask_mode_again"
                 /\ counseling_context' = counseling_context
                 /\ selected_course' = selected_course
                 /\ counseling_mode' = counseling_mode
           /\ out'.op = "none"
           /\ sessions' = sessions ]_vars


\* the cache keys that contain a schedule-like word
ScheduleKeys == { k \in CacheKeys : \E u \in Transcripts : u.key = k /\ AnyOf(u, ScheduleWords) }

\* u asks for help choosing, names no course and is no "just schedule"
HelpAsked(u) ==
    /\ AnyOf(u, HelpPhrases)
    /\ ~AnyOf(u, JustSchedulePhrases)
    /\ u.has \cap {"python", "java", "data science", "web development"} = {}

\* the turn took the help path of AwaitingChoice
HelpStep == out'.branch = "awaiting_choice" /\ out'.msg \in {"course_list", "no_courses"}

HRPhrases == {"hr login", "view interactions", "update course", "status report",
              "logout"}

\* the branch the dialogue takes for transcript u when the HR flag is false
\* (the tests that follow the HR block, in their order)
OrdinaryBranch(u) ==
    IF u.key \in CacheKeys /\ selected_course = None THEN "cache"
    ELSE IF /\ counseling_context = "awaiting_choice"
            /\ \/ AnyOf(u, JustSchedulePhrases)
               \/ u.has \cap {"python", "java", "data science", "web development"} # {}
               \/ selected_course # None
               \/ AnyOf(u, HelpPhrases)
    THEN "awaiting_choice"
    ELSE IF counseling_context = "awaiting_mode" THEN "awaiting_mode"
    ELSE IF counseling_context = "course_suggestion" /\ AnyOf(u, ScheduleWords)
    THEN "after_suggestion"
    ELSE IF AnyOf(u, CourseKeywords) THEN "course_query"
    ELSE "generative"

\* C31: a successful hr login, a logout and each privileged command leave
\* dialogue state, selected course, mode and last intent as they were, in
\* whatever dialogue state they are heard; and while the HR flag is set an
\* utterance that contains no phrase of the HR command surface takes the
\* branch it would take with the flag false, keeping the flag and the
\* executing identity.
C31_HROrthogonal ==
    [][ (turn' = turn + 1 /\ Bound)
        => /\ out'.branch \in HRBranches \ {"hr_denied"}
              => /\ <<last_intent, counseling_context, selected_course,
                       counseling_mode>>' =
                    <<last_intent, counseling_context, selected_course,
                      counseling_mode>>
                 /\ sessions' = sessions
           /\ is_hr_authenticated
              => \A u \in Transcripts :
                    ~AnyOf(u, HRPhrases) => Branch(u) = OrdinaryBranch(u)
           /\ (is_hr_authenticated /\ out'.branch \notin HRBranches)
              => (is_hr_authenticated' /\ hr_user' = hr_user) ]_vars

\* the dialogue went on under the HR flag: the workflow was opened, a login
\* followed, and the help request was then handled by AwaitingChoice
C31_Witness ==
    /\ is_hr_authenticated
    /\ out.branch = "awaiting_choice"
    /\ counseling_context = "course_suggestion"


\* C32: in the listening loop a capture that is not understood adds one to
\* the failure counter, except the third in a row, which is answered with the
\* alternate prompt and returns the counter to 0; a recognised transcript
\* returns the counter to 0; after every step the counter is in 0..2 and the
\* loop is still running.
C32_UnrecognisedBounded ==
    [][ /\ running => running'
        /\ out'.branch = "unrecognized"
           => IF audio_failure_count = 2
              THEN audio_failure_count' = 0 /\ out'.msg = "trouble_hearing"
              ELSE /\ audio_failure_count' = audio_failure_count + 1
                   /\ out'.msg = "none"
        /\ turn' = turn + 1 => audio_failure_count' = 0
        /\ audio_failure_count' \in 0..2 ]_vars

\* the alternate prompt was issued after a turn had been handled: the third
\* failure in a row returned the counter to 0 and the loop listens again
C32_Witness ==
    /\ running
    /\ turn > 0
    /\ out.branch = "unrecognized"
    /\ out.msg = "trouble_hearing"
    /\ audio_failure_count = 0


\* C33: a turn heard while no employee is bound is handled by identification
\* alone: the HR flag and the rest of the conversation context stay as they
\* are, also when the transcript carries "hr login" and the secret, no
\* session is added or changed, and no interaction, course or audit record
\* is written.
C33_UnidentifiedInert ==
    [][ (turn' = turn + 1 /\ ~Bound)
        => /\ out'.branch = "identify"
           /\ is_hr_authenticated' = is_hr_authenticated
           /\ hr_user' = hr_user
           /\ <<last_intent, counseling_context, selected_course,
                 counseling_mode>>' =
              <<last_intent, counseling_context, selected_course, counseling_mode>>
           /\ <<sessions, next_id, interactions, courses, hr_commands>>' =
              <<sessions, next_id, interactions, courses, hr_commands>> ]_vars

\* "hr login" with the secret was heard while no employee was bound: the
\* turn ran the identification, which bound one, and the HR flag is not set
C33_Witness ==
    /\ out.branch = "identify"
    /\ out.msg = "identification"
    /\ login_seen
    /\ ~is_hr_authenticated
    /\ Bound
    /\ interactions = <<>>

\* C36: a spoken code that no stored employee carries stays unknown: the
\* identification binds no employee under it and stores no employee row
\* with it.
C36_UnknownCode ==
    [][ (\A i \in 1..Len(employees) : employees[i].code # SpokenCode)
        => /\ unique_code' # SpokenCode
           /\ \A i \in 1..Len(employees') : employees'[i].code # SpokenCode ]_vars


\* C34: when the employee has a session, a reschedule request has been
\* recognised and a mode chosen after it, the next turn adds no session: the
\* employee owns as many sessions after it as before, and a turn that
\* changes the table has only rewritten the existing session.
C34_RescheduleKeepsCount ==
    [][ (turn' = turn + 1 /\ Bound /\ counseling_mode # None
         /\ Mine(sessions) # {})
        => /\ Cardinality(Mine(sessions')) <= Cardinality(Mine(sessions))
           /\ sessions' # sessions => out'.op = "reschedule" ]_vars


\* C35: while no counseling mode has been chosen in the conversation, no
\* turn inserts a session: every row of the table after the turn was in it
\* before.
C35_NoBookingBeforeMode ==
    [][ (turn' = turn + 1 /\ counseling_mode = None)
        => { s.id : s \in sessions' } \subseteq { s.id : s \in sessions } ]_vars


\* C37: a course update that reports success has changed the named field of
\* exactly one course to the value given, and no other field and no other
\* course.
C37_OneCourse ==
    [][ (out'.branch = "update_course" /\ out'.msg = "updated"
         /\ out'.cmd.field = "price")
        => \E c \in CourseNames :
              /\ courses'[c] = [courses[c] EXCEPT !.fees = out'.cmd.value]
              /\ courses'[c] # courses[c]
              /\ \A d \in CourseNames \ {c} : courses'[d] = courses[d] ]_vars


\* C38: once a course is selected, every later step of the same conversation
\* (every step but the start of a new process) leaves a course selected, and
\* no later turn of the conversation is answered from the response cache.
C38_CourseKept ==
    [][ (selected_course # None /\ out'.branch # "restart")
        => /\ selected_course' # None
           /\ out'.branch # "cache" ]_vars

\* the canned opener was heard after a course had been selected: it was not
\* answered from the cache but went to the collaborator, whose reply booked a
\* session, and the course is still selected
C38_Witness ==
    /\ selected_course # None
    /\ out.key = "schedule counseling"
    /\ out.branch = "book"
    /\ out.msg \in Confirmations
    /\ sessions # {}

=============================================================================
